---- MODULE Spec2Model ----
(***************************************************************************)
(* Registration bot: the data-access gateway (lib/supabase.js) and the     *)
(* Telegraf handlers of the webhook bot (api/bot.js), as a state machine.  *)
(* Every inbound update gets a request slot; a handler advances one        *)
(* awaited backend call (or one broadcast send) at a time, so handlers of  *)
(* different updates interleave at their awaits.                           *)
(***************************************************************************)
EXTENDS Integers, Sequences, FiniteSets, TLC

VARIABLES
    store,       \* table registrations: sequence of rows
    admin_logs,  \* table admin_logs: sequence of rows
    ADMIN_ID,    \* process.env.ADMIN_ID: characters; <<>> when unset
    reqs,        \* the updates received so far, each with its handler's position
    nfaults      \* backend / transport faults injected so far

vars == <<store, admin_logs, ADMIN_ID, reqs, nfaults>>

----------------------------------------------------------------------------
(* Bounds *)

MaxEvents == 2      \* inbound updates per behaviour
MaxFaults == 1      \* injected backend / transport faults per behaviour
MaxRetryEvents == 4 \* inbound updates per behaviour of SpecRetry

----------------------------------------------------------------------------
(* Values.  An optional value (undefined / null / NaN) is a sequence of      *)
(* length 0, a present one a sequence of length 1.                           *)

None == <<>>
Some(v) == <<v>>

Whitespace == {" ", "\n", "\t"}
DigitChars == <<"0", "1", "2", "3", "4", "5", "6", "7", "8", "9">>
IsDigit(c) == \E d \in 1..10 : DigitChars[d] = c
DigitVal(c) == (CHOOSE d \in 1..10 : DigitChars[d] = c) - 1

RECURSIVE Str(_)
Str(cs) == IF cs = <<>> THEN "" ELSE Head(cs) \o Str(Tail(cs))

RECURSIVE Digits(_)
Digits(n) == IF n < 10 THEN <<DigitChars[n + 1]>>
             ELSE Digits(n \div 10) \o <<DigitChars[(n % 10) + 1]>>

RECURSIVE DigitRun(_)
DigitRun(cs) == IF cs # <<>> /\ IsDigit(Head(cs))
                THEN <<Head(cs)>> \o DigitRun(Tail(cs)) ELSE <<>>

RECURSIVE DigitsValue(_, _)
DigitsValue(cs, acc) == IF cs = <<>> THEN acc
                        ELSE DigitsValue(Tail(cs), acc * 10 + DigitVal(Head(cs)))

RECURSIVE TrimStart(_)
TrimStart(cs) == IF cs # <<>> /\ Head(cs) \in Whitespace THEN TrimStart(Tail(cs)) ELSE cs

RECURSIVE TrimEnd(_)
TrimEnd(cs) == IF cs # <<>> /\ cs[Len(cs)] \in Whitespace
               THEN TrimEnd(SubSeq(cs, 1, Len(cs) - 1)) ELSE cs

trim(cs) == TrimEnd(TrimStart(cs))
substring(cs, from) == SubSeq(cs, from + 1, Len(cs))

\* parseInt(s, 10): leading whitespace skipped, the leading digit run read,
\* NaN (None) when there is none or s is undefined.
parseInt(cs) ==
    LET run == DigitRun(TrimStart(cs))
    IN IF run = <<>> THEN None ELSE Some(DigitsValue(run, 0))

\* JavaScript truthiness of an optional string and of an optional number.
Truthy(opt) == opt # None /\ opt[1] # ""
TruthyNum(opt) == opt # None /\ opt[1] # 0

\* a || b on an optional string
OrElse(opt, dflt) == IF Truthy(opt) THEN opt[1] ELSE dflt

----------------------------------------------------------------------------
(* The backend store (PostgREST behind supabase-js).  A response is         *)
(* {data, error}; fault is "none", "error" (the backend reports an error)   *)
(* or "throw" (the client call throws).                                     *)

Faults == {"none", "error", "throw"}

RowsOf(st, telegramId) == {n \in 1..Len(st) : st[n].telegram_id = telegramId}

\* .from('registrations').select('telegram_id').eq('telegram_id', id).single()
BackendSelectSingle(st, telegramId, fault) ==
    IF fault # "none" THEN [data |-> None, error |-> "500"]
    ELSE IF Cardinality(RowsOf(st, telegramId)) = 1
         THEN [data |-> Some(telegramId), error |-> ""]
         ELSE [data |-> None, error |-> "PGRST116"]

\* .from('registrations').insert({...}).select().single(); telegram_id is the
\* table's primary key, so a second row for an id is refused (code 23505).
BackendInsertDup(st, row, fault) ==
    IF fault # "none" THEN [data |-> None, error |-> "500", table |-> st]
    ELSE [data |-> Some(row), error |-> "", table |-> Append(st, row)]

BackendInsert(st, row, fault) ==
    IF fault # "none" THEN [data |-> None, error |-> "500", table |-> st]
    ELSE IF RowsOf(st, row.telegram_id) # {}
         THEN [data |-> None, error |-> "23505", table |-> st]
         ELSE [data |-> Some(row), error |-> "", table |-> Append(st, row)]

\* .select('*', { count: 'exact', head: true })
BackendCount(st, fault) ==
    IF fault # "none" THEN [count |-> None, error |-> "500"]
    ELSE [count |-> Some(Len(st)), error |-> ""]

\* .select('telegram_id, username')
BackendSelectList(st, fault) ==
    IF fault # "none" THEN [data |-> None, error |-> "500"]
    ELSE [data |-> Some([n \in 1..Len(st) |->
                           [telegram_id |-> st[n].telegram_id,
                            username |-> st[n].username]]),
          error |-> ""]

\* .from('admin_logs').insert({...}).select().single()
BackendInsertLog(logs, row, fault) ==
    IF fault # "none" THEN [data |-> None, error |-> "500", table |-> logs]
    ELSE [data |-> Some(row), error |-> "", table |-> Append(logs, row)]

----------------------------------------------------------------------------
(* The gateway, lib/supabase.js.  null is None.                             *)

\* isUserRegistered without the exemption of PGRST116
isUserRegisteredStrict(st, telegramId, fault) ==
    IF fault = "throw" THEN None
    ELSE LET r == BackendSelectSingle(st, telegramId, fault)
         IN IF r.error # "" THEN None
            ELSE Some(r.data # None)

isUserRegistered(st, telegramId, fault) ==
    IF fault = "throw" THEN None
    ELSE LET r == BackendSelectSingle(st, telegramId, fault)
         IN IF r.error # "" /\ r.error # "PGRST116" THEN None
            ELSE Some(r.data # None)

\* registerUser as an upsert: a row that exists is replaced by the new data
registerUserUpsert(st, userData, fault) ==
    IF fault # "none" THEN [result |-> None, table |-> st]
    ELSE LET row == [telegram_id |-> userData.telegram_id,
                     username |-> userData.username,
                     first_name |-> userData.first_name]
         IN IF RowsOf(st, row.telegram_id) = {}
            THEN [result |-> Some(row), table |-> Append(st, row)]
            ELSE [result |-> Some(row),
                  table |-> [n \in 1..Len(st) |->
                               IF st[n].telegram_id = row.telegram_id THEN row ELSE st[n]]]

registerUser(st, userData, fault) ==
    IF fault = "throw" THEN [result |-> None, table |-> st]
    ELSE LET r == BackendInsert(st,
                     [telegram_id |-> userData.telegram_id,
                      username |-> userData.username,
                      first_name |-> userData.first_name], fault)
         IN IF r.error # "" THEN [result |-> None, table |-> r.table]
            ELSE [result |-> r.data, table |-> r.table]

\* getRegisteredUserCount testing the count for truth, so that 0 is an error
getRegisteredUserCountZeroIsError(st, fault) ==
    IF fault = "throw" THEN None
    ELSE LET r == BackendCount(st, fault)
         IN IF r.error # "" \/ ~TruthyNum(r.count) THEN None ELSE r.count

getRegisteredUserCount(st, fault) ==
    IF fault = "throw" THEN None
    ELSE LET r == BackendCount(st, fault)
         IN IF r.error # "" THEN None ELSE r.count

\* getRegisteredUsersList answering a failure with an empty array
getRegisteredUsersListEmptyOnError(st, fault) ==
    IF fault = "throw" THEN Some(<<>>)
    ELSE LET r == BackendSelectList(st, fault)
         IN IF r.error # "" THEN Some(<<>>) ELSE r.data

getRegisteredUsersList(st, fault) ==
    IF fault = "throw" THEN None
    ELSE LET r == BackendSelectList(st, fault)
         IN IF r.error # "" THEN None ELSE r.data

logAdminAction(logs, logData, fault) ==
    IF fault = "throw" THEN [result |-> None, table |-> logs]
    ELSE LET r == BackendInsertLog(logs,
                     [admin_telegram_id |-> logData.admin_telegram_id,
                      action |-> logData.action,
                      details |-> logData.details], fault)
         IN IF r.error # "" THEN [result |-> None, table |-> r.table]
            ELSE [result |-> r.data, table |-> r.table]

----------------------------------------------------------------------------
(* Inbound updates.                                                         *)

\* ctx.from of the users that write to the bot; user 42 writes under two
\* handles and names (Telegram lets a user change both, the id stays)
Profiles ==
    { [id |-> 1,  username |-> Some("admin"), first_name |-> Some("Root")],
      [id |-> 42, username |-> Some("alice"), first_name |-> Some("Alice")],
      [id |-> 42, username |-> Some("alicia"), first_name |-> Some("Alicia")],
      [id |-> 7,  username |-> None,          first_name |-> None] }

BotUsername == "bot"     \* ctx.me

\* message texts, as characters
TxtStart      == <<"/", "s", "t", "a", "r", "t">>
TxtHelp       == <<"/", "h", "e", "l", "p">>
TxtCount      == <<"/", "c", "o", "u", "n", "t">>
TxtList       == <<"/", "l", "i", "s", "t">>
TxtNotify     == <<"/", "n", "o", "t", "i", "f", "y">>
TxtNotifyWs   == TxtNotify \o <<" ", " ">>
TxtNotifyHi   == TxtNotify \o <<" ", "h", "i", " ">>
TxtNotifyAt   == TxtNotify \o <<"@", "b", "o", "t">>
TxtHello      == <<"h", "e", "l", "l", "o">>
TxtUnknownCmd == <<"/", "f", "o", "o">>

MessageTexts == {TxtStart, TxtHelp, TxtCount, TxtList, TxtNotify, TxtNotifyWs,
                 TxtNotifyHi, TxtNotifyAt, TxtHello, TxtUnknownCmd}

\* callback data of the buttons: 'register_yes:' + telegramId and 'register_no'
YesData(telegramId) == <<"register_", "yes", ":">> \o Digits(telegramId)
NoData == <<"register_", "no">>
BareYesData == <<"register_", "yes">>

CallbackData == {YesData(p.id) : p \in Profiles} \cup {NoData, BareYesData}

----------------------------------------------------------------------------
(* Telegraf's routing of a text message: the bot_command entity is the      *)
(* leading "/name" or "/name@bot" up to the first whitespace.               *)

RECURSIVE TakeUntil(_, _)
TakeUntil(cs, stops) == IF cs = <<>> \/ Head(cs) \in stops THEN <<>>
                        ELSE <<Head(cs)>> \o TakeUntil(Tail(cs), stops)

CommandToken(text) ==
    IF text # <<>> /\ Head(text) = "/" THEN TakeUntil(text, Whitespace) ELSE <<>>

CommandName(text) ==
    LET token == CommandToken(text)
        name == TakeUntil(Tail(token), {"@"})
        addressee == SubSeq(token, Len(name) + 3, Len(token))
    IN IF token = <<>> THEN ""
       ELSE IF Len(token) > Len(name) + 1 /\ Str(addressee) # BotUsername THEN ""
       ELSE Str(name)

\* bot.start, bot.help, bot.command('count' | 'list' | 'notify'), bot.on('message')
Route(text) ==
    IF CommandName(text) \in {"start", "help", "count", "list", "notify"}
    THEN CommandName(text) ELSE "message"

\* /register_(yes|no):?(\d+)?/ on the callback data: match[1] and match[2]
MatchAction(data) ==
    LET rest == SubSeq(data, 3, Len(data))
        afterColon == IF rest # <<>> /\ Head(rest) = ":" THEN Tail(rest) ELSE rest
        run == DigitRun(afterColon)
    IN [action |-> data[2], id |-> IF run = <<>> THEN None ELSE Some(run)]

----------------------------------------------------------------------------
(* Message texts, as the pieces the handlers concatenate.  Markdown's       *)
(* backquote is written ' and the emoji are left out.                       *)

MsgGeneric      == <<"Something went wrong, please try again later.">>
MsgAlready      == <<"You're already registered. I'll notify you when the app is live.">>
MsgNotForYou    == <<"This registration prompt is not for you.">>
MsgRegFailed    == <<"Something went wrong during registration, please try again later.">>
MsgDeclined     == <<"No problem! You can type /start again anytime if you change your mind.">>
MsgUnauthorized == <<"Unauthorized access. This command is for admins only.">>
MsgHint         == <<"I'm a registration bot! Please use commands like /start or /help.">>
MsgCountFailed  == <<"Something went wrong while fetching user count, please try again later.">>
MsgListFailed   == <<"Something went wrong while fetching the user list, please try again later.">>
MsgNoUsers      == <<"No users are currently registered.">>
MsgUsage        == <<"Please provide a message to send. Example: '/notify The app is now live!'">>
MsgNotifyListFailed ==
    <<"Something went wrong while fetching the user list for notification, please try again later.">>
MsgNotifyNoUsers == <<"No users are currently registered to notify.">>
MsgBroadcastFailed == <<"Something went wrong during the broadcast, please try again later.">>

MsgPrompt(from) ==
    <<"Hello ", OrElse(from.first_name, "there"), "! I see you're not yet registered.\n\n",
      "I'll collect the following information to keep you updated:\n",
      "* Your Telegram ID: '", ToString(from.id), "'\n">>
    \o (IF Truthy(from.username)
        THEN <<"* Your Username: '", "@" \o from.username[1], "'\n">>
        ELSE <<"* Your Username: 'Not available' (You can set one in Telegram settings!)\n">>)
    \o <<"* Your First Name: '", OrElse(from.first_name, "Not provided"), "'\n\n",
         "Would you like to register for updates about the Portfolio Showcase app?">>

MsgRegistered(from) ==
    <<"Great! Thanks for registering, ", OrElse(from.first_name, "there"),
      "! I'll notify you when the Portfolio Showcase app is ready.">>

MsgHelp(admin) ==
    <<"Welcome to the Portfolio Showcase Bot!\n\n",
      "Use /start to register for updates on the upcoming Portfolio Showcase Mini App.\n">>
    \o (IF admin
        THEN <<"\n--- Admin Commands ---\n",
               "/count - Get the total number of registered users.\n",
               "/list - Get a list of all registered usernames and IDs.\n",
               "/notify <message> - Send a broadcast message to all registered users. Example: '/notify The app is live!'\n">>
        ELSE <<>>)

MsgCount(count) == <<"Currently, ", ToString(count), " users are registered.">>

\* users.map(...) without the test for an absent username
UserLineAlwaysHandle(user) ==
    "- " \o ToString(user.telegram_id) \o " (@" \o OrElse(user.username, "null") \o ")"

\* users.map(user => '- ' + id + (username ? ' (@' + username + ')' : '')).join('\n')
UserLine(user) ==
    "- " \o ToString(user.telegram_id)
    \o (IF Truthy(user.username) THEN " (@" \o user.username[1] \o ")" ELSE "")

RECURSIVE JoinWith(_, _)
JoinWith(strs, sep) ==
    IF strs = <<>> THEN ""
    ELSE IF Len(strs) = 1 THEN strs[1]
    ELSE strs[1] \o sep \o JoinWith(Tail(strs), sep)

MsgUserList(users) ==
    <<"Registered Users:\n", JoinWith([n \in 1..Len(users) |-> UserLine(users[n])], "\n")>>

MsgBroadcastDone(successfulSends, failedSends) ==
    <<"Broadcast complete! Sent to ", ToString(successfulSends), " users. Failed for ",
      ToString(failedSends), " users.">>

\* 'Message: "' + messageText + '" | Sent: ' + s + ', Failed: ' + f + ' (IDs: ' + (ids.join(', ') || 'N/A') + ')'
BroadcastDetails(messageText, successfulSends, failedSends, failedUserIds) ==
    LET ids == JoinWith([n \in 1..Len(failedUserIds) |-> ToString(failedUserIds[n])], ", ")
    IN "Message: \"" \o Str(messageText) \o "\" | Sent: " \o ToString(successfulSends)
       \o ", Failed: " \o ToString(failedSends)
       \o " (IDs: " \o (IF ids = "" THEN "N/A" ELSE ids) \o ")"

----------------------------------------------------------------------------
(* A request: one inbound update and the position of its handler.  trace    *)
(* lists, in order, every call the handler made on the gateway and on the   *)
(* transport, with its outcome.                                             *)

Call(op, to, text, res) ==
    [op |-> op, to |-> to, text |-> text, res |-> res, buttons |-> <<>>]

TRes(failed) == IF failed THEN "fail" ELSE "ok"
Unawaited == "unawaited"
ShowBool(opt) == IF opt = None THEN "null" ELSE IF opt[1] THEN "true" ELSE "false"
ShowRow(opt) == IF opt = None THEN "null" ELSE "row"
ShowNum(opt) == IF opt = None THEN "null" ELSE ToString(opt[1])

NoLog == [admin_telegram_id |-> 0, action |-> "", details |-> ""]

NewReq(kind, from, text, registered) ==
    [kind |-> kind, from |-> from, text |-> text, pc |-> "done", trace |-> <<>>,
     caught |-> FALSE,          \* the handler threw and bot.catch ran
     regAtArrival |-> registered,  \* history: the sender had a row on arrival
     messageText |-> <<>>, users |-> <<>>, i |-> 1,
     successfulSends |-> 0, failedSends |-> 0, failedUserIds |-> <<>>,
     logData |-> NoLog,
     statusCode |-> 0, body |-> ""]   \* the webhook's response, 0 while none is sent

\* the webhook's responses
BodyOK == "OK"
BodyInfo ==
    "This is the Telegram Bot webhook endpoint. Please send POST requests with Telegram updates."
BodyError == "{\"success\":false,\"error\":\"" \o "handleUpdate error" \o "\"}"

\* bot.handleUpdate resolved: the webhook sends its manual 200
Acknowledge(r) == [r EXCEPT !.statusCode = 200, !.body = BodyOK]

Did(r, call) == [r EXCEPT !.trace = Append(@, call)]
Goto(r, pc) == IF pc = "done" THEN Acknowledge([r EXCEPT !.pc = pc])
               ELSE [r EXCEPT !.pc = pc]
\* the handler threw: bot.catch logs the error and handleUpdate resolves
Throw(r) == Acknowledge([r EXCEPT !.caught = TRUE, !.pc = "done"])
WillLog(r, action, details) ==
    [r EXCEPT !.pc = "log",
              !.logData = [admin_telegram_id |-> r.from.id, action |-> action,
                           details |-> details]]

\* the error.message of a failed transport call
ErrMessage == "transport error"

----------------------------------------------------------------------------
(* Handlers, api/bot.js.  t is whether the awaited transport call of the    *)
(* step fails.                                                              *)

\* the admin check middleware
isAdminAlways(from, adminEnv) == TRUE

\* the admin check middleware, letting everyone through when no administrator
\* id can be read
isAdminOpenWhenUnset(from, adminEnv) ==
    parseInt(adminEnv) = None \/ Some(from.id) = parseInt(adminEnv)

\* the admin check middleware
isAdmin(from, adminEnv) == Some(from.id) = parseInt(adminEnv)

\* bot.start: the callback buttons of the offer
StartButtonsBare(telegramId) == <<BareYesData, NoData>>

StartButtons(telegramId) == <<YesData(telegramId), NoData>>

\* bot.start, after the membership check, taking null for 'not registered'
StartReplyOffersOnError(r, registered, t) ==
    IF registered # None /\ registered[1]
    THEN Goto(Did(r, Call("reply", 0, MsgAlready, Unawaited)), "done")
    ELSE LET r1 == Did(r, [Call("reply", 0, MsgPrompt(r.from), TRes(t))
                             EXCEPT !.buttons = StartButtons(r.from.id)])
         IN Goto(IF t THEN Did(r1, Call("reply", 0, MsgGeneric, Unawaited)) ELSE r1,
                 "done")

\* bot.start, after the membership check
StartReplyOffersAgain(r, registered, t) ==
    Goto(Did(r, [Call("reply", 0, MsgPrompt(r.from), TRes(t))
                   EXCEPT !.buttons = StartButtons(r.from.id)]), "done")

StartReply(r, registered, t) ==
    IF registered = None
    THEN LET r1 == Did(r, Call("reply", 0, MsgGeneric, TRes(t)))
         IN IF t THEN Throw(r1) ELSE Goto(r1, "done")
    ELSE IF registered[1]
    THEN Goto(Did(r, Call("reply", 0, MsgAlready, Unawaited)), "done")
    ELSE LET r1 == Did(r, [Call("reply", 0, MsgPrompt(r.from), TRes(t))
                             EXCEPT !.buttons = StartButtons(r.from.id)])
         IN Goto(IF t THEN Did(r1, Call("reply", 0, MsgGeneric, Unawaited)) ELSE r1,
                 "done")

\* bot.action: the id of the callback data against the id of the presser
NotForYouNever(telegramIdFromCallback, currentTelegramId) == FALSE

NotForYou(telegramIdFromCallback, currentTelegramId) ==
    TruthyNum(telegramIdFromCallback) /\ telegramIdFromCallback[1] # currentTelegramId

\* await ctx.editMessageText(text) inside the try of bot.action; the catch
\* falls back to ctx.reply
EditOrFallback(r, text, t) ==
    LET r1 == Did(r, Call("editMessageText", 0, text, TRes(t)))
    IN Goto(IF t THEN Did(r1, Call("reply", 0, MsgGeneric, Unawaited)) ELSE r1, "done")

\* bot.action up to its first await inside the try
ActionEntryAlwaysYes(r, t) ==
    LET m == MatchAction(r.text)
        telegramIdFromCallback == IF m.id # None THEN parseInt(m.id[1]) ELSE None
    IN IF NotForYou(telegramIdFromCallback, r.from.id)
       THEN LET r1 == Did(r, Call("answerCbQuery", 0, MsgNotForYou, TRes(t)))
            IN IF t THEN Throw(r1) ELSE Goto(r1, "done")
       ELSE LET r1 == Did(r, Call("answerCbQuery", 0, <<>>, TRes(t)))
            IN IF t THEN Throw(r1) ELSE Goto(r1, "accept_check")

\* bot.action up to its first await inside the try, without the return after
\* the 'not for you' alert
ActionEntryAlertFallsThrough(r, t) ==
    LET m == MatchAction(r.text)
        telegramIdFromCallback == IF m.id # None THEN parseInt(m.id[1]) ELSE None
        alerted == IF NotForYou(telegramIdFromCallback, r.from.id)
                   THEN Did(r, Call("answerCbQuery", 0, MsgNotForYou, "ok"))
                   ELSE r
        r1 == Did(alerted, Call("answerCbQuery", 0, <<>>, TRes(t)))
    IN IF t THEN Throw(r1)
       ELSE IF m.action = "yes" THEN Goto(r1, "accept_check")
       ELSE IF m.action = "no" THEN Goto(r1, "decline_edit")
       ELSE Goto(r1, "done")

\* bot.action up to its first await inside the try
ActionEntry(r, t) ==
    LET m == MatchAction(r.text)
        telegramIdFromCallback == IF m.id # None THEN parseInt(m.id[1]) ELSE None
    IN IF NotForYou(telegramIdFromCallback, r.from.id)
       THEN LET r1 == Did(r, Call("answerCbQuery", 0, MsgNotForYou, TRes(t)))
            IN IF t THEN Throw(r1) ELSE Goto(r1, "done")
       ELSE LET r1 == Did(r, Call("answerCbQuery", 0, <<>>, TRes(t)))
            IN IF t THEN Throw(r1)
               ELSE IF m.action = "yes" THEN Goto(r1, "accept_check")
               ELSE IF m.action = "no" THEN Goto(r1, "decline_edit")
               ELSE Goto(r1, "done")

\* bot.action, 'yes', after the membership re-check, without the test for a
\* user who is registered by now
AcceptAfterCheckAlwaysInserts(r, alreadyRegistered, t) ==
    IF alreadyRegistered = None THEN EditOrFallback(r, MsgGeneric, t)
    ELSE Goto(r, "accept_insert")

\* bot.action, 'yes', after the membership re-check, testing only for a true
\* answer (null falls through to the insert)
AcceptAfterCheckNullFallsThrough(r, alreadyRegistered, t) ==
    IF alreadyRegistered # None /\ alreadyRegistered[1] THEN EditOrFallback(r, MsgAlready, t)
    ELSE Goto(r, "accept_insert")

\* bot.action, 'yes', after the membership re-check
AcceptAfterCheckSkipsInsert(r, alreadyRegistered, t) ==
    IF alreadyRegistered = None THEN EditOrFallback(r, MsgGeneric, t)
    ELSE EditOrFallback(r, MsgAlready, t)

AcceptAfterCheck(r, alreadyRegistered, t) ==
    IF alreadyRegistered = None THEN EditOrFallback(r, MsgGeneric, t)
    ELSE IF alreadyRegistered[1] THEN EditOrFallback(r, MsgAlready, t)
    ELSE Goto(r, "accept_insert")

\* bot.action, 'yes': the row handed to registerUser
UserDataNoHandle(from) ==
    [telegram_id |-> from.id, username |-> None,
     first_name |-> OrElse(from.first_name, "N/A")]

\* bot.action, 'yes': the row handed to registerUser
UserData(from) ==
    [telegram_id |-> from.id, username |-> from.username,
     first_name |-> OrElse(from.first_name, "N/A")]

\* bot.action, 'yes', after registerUser, saying nothing when the insert failed
AcceptAfterInsertNoNotice(r, registrationResult, t) ==
    IF registrationResult # None THEN EditOrFallback(r, MsgRegistered(r.from), t)
    ELSE Goto(r, "done")

\* bot.action, 'yes', after registerUser, taking a failed insert for a duplicate
AcceptAfterInsertFriendly(r, registrationResult, t) ==
    IF registrationResult # None THEN EditOrFallback(r, MsgRegistered(r.from), t)
    ELSE EditOrFallback(r, MsgAlready, t)

\* bot.action, 'yes', after registerUser
AcceptAfterInsert(r, registrationResult, t) ==
    IF registrationResult # None THEN EditOrFallback(r, MsgRegistered(r.from), t)
    ELSE EditOrFallback(r, MsgRegFailed, t)

\* bot.help, recording the request in the audit log
HelpReplyAudited(r, adminEnv) ==
    WillLog(Did(r, Call("reply", 0, MsgHelp(Some(r.from.id) = parseInt(adminEnv)),
                        Unawaited)),
            "help", "Help shown.")

\* bot.help
HelpReply(r, adminEnv) ==
    Goto(Did(r, Call("reply", 0, MsgHelp(Some(r.from.id) = parseInt(adminEnv)), Unawaited)),
         "done")

\* bot.on('message') without the test for a leading '/'
MessageReplyAlways(r) ==
    Goto(Did(r, Call("reply", 0, MsgHint, Unawaited)), "done")

\* bot.on('message')
MessageReply(r) ==
    IF r.text # <<>> /\ Head(r.text) # "/"
    THEN Goto(Did(r, Call("reply", 0, MsgHint, Unawaited)), "done")
    ELSE Goto(r, "done")

\* the catch block of an admin command
AdminCatch(r, fallback, action, details) ==
    WillLog(Did(r, Call("reply", 0, fallback, Unawaited)), action, details)

\* bot.command('count') after the count query, logging the success tag in
\* every case
CountReplyLogsSuccess(r, count, t) ==
    LET text == IF count = None THEN MsgCountFailed ELSE MsgCount(count[1])
        r1 == Did(r, Call("reply", 0, text, TRes(t)))
    IN IF t THEN AdminCatch(r1, MsgGeneric, "count_users_failed",
                            "Unhandled error: " \o ErrMessage)
       ELSE WillLog(r1, "count_users",
                    IF count = None THEN "Database error fetching count."
                    ELSE "Returned count: " \o ToString(count[1]))

\* bot.command('count') after the count query
CountReply(r, count, t) ==
    LET text == IF count = None THEN MsgCountFailed ELSE MsgCount(count[1])
        r1 == Did(r, Call("reply", 0, text, TRes(t)))
    IN IF t THEN AdminCatch(r1, MsgGeneric, "count_users_failed",
                            "Unhandled error: " \o ErrMessage)
       ELSE IF count = None
       THEN WillLog(r1, "count_users_failed", "Database error fetching count.")
       ELSE WillLog(r1, "count_users", "Returned count: " \o ToString(count[1]))

\* bot.command('list') after the list query
ListReply(r, users, t) ==
    LET text == IF users = None THEN MsgListFailed
                ELSE IF Len(users[1]) = 0 THEN MsgNoUsers
                ELSE MsgUserList(users[1])
        r1 == Did(r, Call("reply", 0, text, TRes(t)))
    IN IF t THEN AdminCatch(r1, MsgGeneric, "list_users_failed",
                            "Unhandled error: " \o ErrMessage)
       ELSE IF users = None
       THEN WillLog(r1, "list_users_failed", "Database error fetching list.")
       ELSE IF Len(users[1]) = 0
       THEN WillLog(r1, "list_users", "No registered users.")
       ELSE WillLog(r1, "list_users",
                    "Returned " \o ToString(Len(users[1])) \o " users.")

\* bot.command('notify') up to the list query
NotifyEntry(r, t) ==
    LET messageText == trim(substring(r.text, 8))
    IN IF messageText = <<>>
       THEN LET r1 == Did(r, Call("reply", 0, MsgUsage, TRes(t)))
            IN IF t THEN Throw(r1)
               ELSE WillLog(r1, "notify_failed", "No message text provided.")
       ELSE Goto([r EXCEPT !.messageText = messageText], "notify_list")

\* bot.command('notify') after the list query, without the case of an empty list
NotifyAfterListNoEmptyCase(r, users, t) ==
    IF users = None
    THEN LET r1 == Did(r, Call("reply", 0, MsgNotifyListFailed, TRes(t)))
         IN IF t THEN AdminCatch(r1, MsgBroadcastFailed, "notify_failed",
                                 "Unhandled error during broadcast: " \o ErrMessage)
            ELSE WillLog(r1, "notify_failed",
                         "Database error fetching user list for broadcast.")
    ELSE IF Len(users[1]) = 0 THEN Goto(r, "notify_summary")
    ELSE Goto([r EXCEPT !.users = users[1], !.i = 1], "notify_send")

\* bot.command('notify') after the list query
NotifyAfterList(r, users, t) ==
    IF users = None \/ (users # None /\ Len(users[1]) = 0)
    THEN LET text == IF users = None THEN MsgNotifyListFailed ELSE MsgNotifyNoUsers
             r1 == Did(r, Call("reply", 0, text, TRes(t)))
         IN IF t THEN AdminCatch(r1, MsgBroadcastFailed, "notify_failed",
                                 "Unhandled error during broadcast: " \o ErrMessage)
            ELSE IF users = None
            THEN WillLog(r1, "notify_failed",
                         "Database error fetching user list for broadcast.")
            ELSE WillLog(r1, "notify_attempt_no_users",
                         "No registered users to send broadcast to.")
    ELSE Goto([r EXCEPT !.users = users[1], !.i = 1], "notify_send")

\* one turn of the broadcast loop that leaves the loop at the first failed send
NotifyTallyAbortsOnFailure(r, user, failed) ==
    [r EXCEPT !.trace = Append(@, Call("sendMessage", user.telegram_id,
                                       <<Str(r.messageText)>>, TRes(failed))),
              !.successfulSends = IF failed THEN @ ELSE @ + 1,
              !.failedSends = IF failed THEN @ + 1 ELSE @,
              !.failedUserIds = IF failed THEN Append(@, user.telegram_id) ELSE @,
              !.i = @ + 1,
              !.pc = IF failed \/ r.i = Len(r.users) THEN "notify_summary"
                     ELSE "notify_send"]

\* one turn of the broadcast loop: the send to users[i] and its tally
NotifyTallyCountsAllSent(r, user, failed) ==
    [r EXCEPT !.trace = Append(@, Call("sendMessage", user.telegram_id,
                                       <<Str(r.messageText)>>, TRes(failed))),
              !.successfulSends = @ + 1,
              !.i = @ + 1,
              !.pc = IF r.i = Len(r.users) THEN "notify_summary" ELSE "notify_send"]

NotifyTally(r, user, failed) ==
    [r EXCEPT !.trace = Append(@, Call("sendMessage", user.telegram_id,
                                       <<Str(r.messageText)>>, TRes(failed))),
              !.successfulSends = IF failed THEN @ ELSE @ + 1,
              !.failedSends = IF failed THEN @ + 1 ELSE @,
              !.failedUserIds = IF failed THEN Append(@, user.telegram_id) ELSE @,
              !.i = @ + 1,
              !.pc = IF r.i = Len(r.users) THEN "notify_summary" ELSE "notify_send"]

\* bot.command('notify') after the loop, with the summary reply outside the try
NotifySummaryReplyUncaught(r, t) ==
    LET r1 == Did(r, Call("reply", 0,
                          MsgBroadcastDone(r.successfulSends, r.failedSends), TRes(t)))
    IN IF t THEN Throw(r1)
       ELSE WillLog(r1, "broadcast_message",
                    BroadcastDetails(r.messageText, r.successfulSends, r.failedSends,
                                     r.failedUserIds))

\* bot.command('notify') after the loop
NotifySummaryReply(r, t) ==
    LET r1 == Did(r, Call("reply", 0,
                          MsgBroadcastDone(r.successfulSends, r.failedSends), TRes(t)))
    IN IF t THEN AdminCatch(r1, MsgBroadcastFailed, "notify_failed",
                            "Unhandled error during broadcast: " \o ErrMessage)
       ELSE WillLog(r1, "broadcast_message",
                    BroadcastDetails(r.messageText, r.successfulSends, r.failedSends,
                                     r.failedUserIds))

----------------------------------------------------------------------------
(* The state machine.                                                       *)

Row42 == [telegram_id |-> 42, username |-> Some("alice"), first_name |-> "Alice"]
Row7  == [telegram_id |-> 7, username |-> None, first_name |-> "N/A"]

\* what the registrations table may hold when the process starts
InitStores == {<<>>, <<Row42>>, <<Row42, Row7>>}

\* what process.env.ADMIN_ID may hold: the administrator's id, nothing, or a
\* text that is no number
AdminEnvs == {<<"1">>, <<>>, <<"a", "d", "m", "i", "n">>}

Cost(f, t) == (IF f # "none" THEN 1 ELSE 0) + (IF t THEN 1 ELSE 0)
Affordable(f, t) == nfaults + Cost(f, t) <= MaxFaults

At(k, pc) == k \in 1..Len(reqs) /\ reqs[k].pc = pc

Init ==
    /\ store \in InitStores
    /\ admin_logs = <<>>
    /\ ADMIN_ID \in AdminEnvs
    /\ reqs = <<>>
    /\ nfaults = 0

\* a text message arrives and runs to its handler's first backend call; limit
\* bounds the updates of a behaviour
ReceiveMessageUpTo(limit, from, text, t) ==
    LET kind == Route(text)
        r == NewReq(kind, from, text, RowsOf(store, from.id) # {})
        admin == isAdmin(from, ADMIN_ID)
        denied == Goto(Did(r, Call("reply", 0, MsgUnauthorized, Unawaited)), "done")
        new == CASE kind = "start" -> Goto(r, "start_check")
                 [] kind = "help" -> HelpReply(r, ADMIN_ID)
                 [] kind = "count" -> IF admin THEN Goto(r, "count_query") ELSE denied
                 [] kind = "list" -> IF admin THEN Goto(r, "list_query") ELSE denied
                 [] kind = "notify" -> IF admin THEN NotifyEntry(r, t) ELSE denied
                 [] OTHER -> MessageReply(r)
        usesT == kind = "notify" /\ admin /\ trim(substring(text, 8)) = <<>>
    IN /\ Len(reqs) < limit
       /\ t => usesT
       /\ Affordable("none", t)
       /\ reqs' = Append(reqs, new)
       /\ nfaults' = nfaults + Cost("none", t)
       /\ UNCHANGED <<store, admin_logs, ADMIN_ID>>

ReceiveMessage(from, text, t) == ReceiveMessageUpTo(MaxEvents, from, text, t)

\* a request that is not a POST with a body: the static answer
NoOne == [id |-> 0, username |-> None, first_name |-> None]
Methods == {"GET", "POST"}

WebhookOther(method, hasBody) ==
    /\ Len(reqs) < MaxEvents
    /\ ~(method = "POST" /\ hasBody)
    /\ reqs' = Append(reqs, [NewReq("other", NoOne, <<method>>, FALSE)
                               EXCEPT !.statusCode = 200, !.body = BodyInfo])
    /\ UNCHANGED <<store, admin_logs, ADMIN_ID, nfaults>>

\* a POST with an update for which bot.handleUpdate rejects (no handler ran,
\* bot.catch did not see the error): the webhook's catch answers
WebhookRejected(from, text) ==
    /\ Len(reqs) < MaxEvents
    /\ Affordable("throw", FALSE)
    /\ reqs' = Append(reqs, [NewReq("rejected", from, text, RowsOf(store, from.id) # {})
                               EXCEPT !.statusCode = 500, !.body = BodyError])
    /\ nfaults' = nfaults + Cost("throw", FALSE)
    /\ UNCHANGED <<store, admin_logs, ADMIN_ID>>

\* a button press arrives: the guard and the acknowledgement
ReceiveCallbackUpTo(limit, from, data, t) ==
    /\ Len(reqs) < limit
    /\ Affordable("none", t)
    /\ reqs' = Append(reqs, ActionEntry(NewReq("action", from, data, RowsOf(store, from.id) # {}), t))
    /\ nfaults' = nfaults + Cost("none", t)
    /\ UNCHANGED <<store, admin_logs, ADMIN_ID>>

ReceiveCallback(from, data, t) == ReceiveCallbackUpTo(MaxEvents, from, data, t)

\* bot.action, 'no', remembering the refusal as a row of the table
DeclineWritesRow(k, t) ==
    /\ At(k, "decline_edit")
    /\ Affordable("none", t)
    /\ reqs' = [reqs EXCEPT ![k] = EditOrFallback(@, MsgDeclined, t)]
    /\ store' = BackendInsert(store, UserData(reqs[k].from), "none").table
    /\ nfaults' = nfaults + Cost("none", t)
    /\ UNCHANGED <<admin_logs, ADMIN_ID>>

\* bot.action, 'no': the prompt is edited
Decline(k, t) ==
    /\ At(k, "decline_edit")
    /\ Affordable("none", t)
    /\ reqs' = [reqs EXCEPT ![k] = EditOrFallback(@, MsgDeclined, t)]
    /\ nfaults' = nfaults + Cost("none", t)
    /\ UNCHANGED <<store, admin_logs, ADMIN_ID>>

\* bot.start: the membership check and the reply
StartCheck(k, f, t) ==
    LET r == reqs[k]
        registered == isUserRegistered(store, r.from.id, f)
        r1 == Did(r, Call("isUserRegistered", r.from.id, <<>>, ShowBool(registered)))
    IN /\ At(k, "start_check")
       /\ t => (IF registered = None THEN TRUE ELSE ~registered[1])
       /\ Affordable(f, t)
       /\ reqs' = [reqs EXCEPT ![k] = StartReply(r1, registered, t)]
       /\ nfaults' = nfaults + Cost(f, t)
       /\ UNCHANGED <<store, admin_logs, ADMIN_ID>>

\* bot.action, 'yes': the membership re-check
AcceptCheck(k, f, t) ==
    LET r == reqs[k]
        alreadyRegistered == isUserRegistered(store, r.from.id, f)
        r1 == Did(r, Call("isUserRegistered", r.from.id, <<>>, ShowBool(alreadyRegistered)))
        new == AcceptAfterCheck(r1, alreadyRegistered, t)
    IN /\ At(k, "accept_check")
       /\ t => new.pc = "done"
       /\ Affordable(f, t)
       /\ reqs' = [reqs EXCEPT ![k] = new]
       /\ nfaults' = nfaults + Cost(f, t)
       /\ UNCHANGED <<store, admin_logs, ADMIN_ID>>

\* bot.action, 'yes', registering the id of the callback data instead of the
\* presser's
AcceptInsertFromPayload(k, f, t) ==
    LET r == reqs[k]
        m == MatchAction(r.text)
        payloadId == IF m.id = None THEN 0 ELSE parseInt(m.id[1])[1]
        res == registerUser(store, [UserData(r.from) EXCEPT !.telegram_id = payloadId], f)
        r1 == Did(r, Call("registerUser", r.from.id, <<>>, ShowRow(res.result)))
    IN /\ At(k, "accept_insert")
       /\ Affordable(f, t)
       /\ store' = res.table
       /\ reqs' = [reqs EXCEPT ![k] = AcceptAfterInsert(r1, res.result, t)]
       /\ nfaults' = nfaults + Cost(f, t)
       /\ UNCHANGED <<admin_logs, ADMIN_ID>>

\* bot.action, 'yes': the insert and the edit of the prompt
AcceptInsert(k, f, t) ==
    LET r == reqs[k]
        res == registerUser(store, UserData(r.from), f)
        r1 == Did(r, Call("registerUser", r.from.id, <<>>, ShowRow(res.result)))
    IN /\ At(k, "accept_insert")
       /\ Affordable(f, t)
       /\ store' = res.table
       /\ reqs' = [reqs EXCEPT ![k] = AcceptAfterInsert(r1, res.result, t)]
       /\ nfaults' = nfaults + Cost(f, t)
       /\ UNCHANGED <<admin_logs, ADMIN_ID>>

\* bot.command('count'): the count query and the reply
CountQuery(k, f, t) ==
    LET r == reqs[k]
        count == getRegisteredUserCount(store, f)
        r1 == Did(r, Call("getRegisteredUserCount", 0, <<>>, ShowNum(count)))
    IN /\ At(k, "count_query")
       /\ Affordable(f, t)
       /\ reqs' = [reqs EXCEPT ![k] = CountReply(r1, count, t)]
       /\ nfaults' = nfaults + Cost(f, t)
       /\ UNCHANGED <<store, admin_logs, ADMIN_ID>>

\* bot.command('list'): the list query and the reply
ListQuery(k, f, t) ==
    LET r == reqs[k]
        users == getRegisteredUsersList(store, f)
        r1 == Did(r, Call("getRegisteredUsersList", 0, <<>>,
                          IF users = None THEN "null" ELSE ToString(Len(users[1]))))
    IN /\ At(k, "list_query")
       /\ Affordable(f, t)
       /\ reqs' = [reqs EXCEPT ![k] = ListReply(r1, users, t)]
       /\ nfaults' = nfaults + Cost(f, t)
       /\ UNCHANGED <<store, admin_logs, ADMIN_ID>>

\* bot.command('notify'): the list query
NotifyList(k, f, t) ==
    LET r == reqs[k]
        users == getRegisteredUsersList(store, f)
        r1 == Did(r, Call("getRegisteredUsersList", 0, <<>>,
                          IF users = None THEN "null" ELSE ToString(Len(users[1]))))
        new == NotifyAfterList(r1, users, t)
    IN /\ At(k, "notify_list")
       /\ t => new.pc # "notify_send"
       /\ Affordable(f, t)
       /\ reqs' = [reqs EXCEPT ![k] = new]
       /\ nfaults' = nfaults + Cost(f, t)
       /\ UNCHANGED <<store, admin_logs, ADMIN_ID>>

\* the broadcast loop with the failure tally kept outside the invocation: a
\* failed send is counted by every broadcast in progress
NotifySendSharedTally(k, failed) ==
    /\ At(k, "notify_send")
    /\ reqs' = [j \in DOMAIN reqs |->
                  IF j = k THEN NotifyTally(reqs[j], reqs[j].users[reqs[j].i], failed)
                  ELSE IF failed /\ reqs[j].pc = "notify_send"
                  THEN [reqs[j] EXCEPT !.failedSends = @ + 1,
                                       !.failedUserIds =
                                          Append(@, reqs[k].users[reqs[k].i].telegram_id)]
                  ELSE reqs[j]]
    /\ UNCHANGED <<store, admin_logs, ADMIN_ID, nfaults>>

\* the broadcast loop reading the table again before every send, so that it
\* runs over the registrations of the moment
NotifySendLiveList(k, failed) ==
    LET now == getRegisteredUsersList(store, "none")[1]
        r == [reqs[k] EXCEPT !.users = now]
    IN /\ At(k, "notify_send")
       /\ reqs' = [reqs EXCEPT ![k] = NotifyTally(r, r.users[r.i], failed)]
       /\ UNCHANGED <<store, admin_logs, ADMIN_ID, nfaults>>

\* bot.command('notify'): the pause and the send to the next user of the list
NotifySend(k, failed) ==
    /\ At(k, "notify_send")
    /\ reqs' = [reqs EXCEPT ![k] = NotifyTally(@, @.users[@.i], failed)]
    /\ UNCHANGED <<store, admin_logs, ADMIN_ID, nfaults>>

\* bot.command('notify'): the summary reply
NotifySummary(k, t) ==
    /\ At(k, "notify_summary")
    /\ Affordable("none", t)
    /\ reqs' = [reqs EXCEPT ![k] = NotifySummaryReply(@, t)]
    /\ nfaults' = nfaults + Cost("none", t)
    /\ UNCHANGED <<store, admin_logs, ADMIN_ID>>

\* the audit-log append that ends an admin command, telling the administrator
\* when the append failed
LogStepReportsFailure(k, f) ==
    LET r == reqs[k]
        res == logAdminAction(admin_logs, r.logData, f)
        r1 == Did(r, Call("logAdminAction", r.logData.admin_telegram_id,
                          <<r.logData.action, r.logData.details>>, ShowRow(res.result)))
        r2 == IF res.result = None THEN Did(r1, Call("reply", 0, MsgGeneric, Unawaited))
              ELSE r1
    IN /\ At(k, "log")
       /\ Affordable(f, FALSE)
       /\ admin_logs' = res.table
       /\ reqs' = [reqs EXCEPT ![k] = Goto(r2, "done")]
       /\ nfaults' = nfaults + Cost(f, FALSE)
       /\ UNCHANGED <<store, ADMIN_ID>>

\* the audit-log append that ends an admin command
LogStep(k, f) ==
    LET r == reqs[k]
        res == logAdminAction(admin_logs, r.logData, f)
        r1 == Did(r, Call("logAdminAction", r.logData.admin_telegram_id,
                          <<r.logData.action, r.logData.details>>, ShowRow(res.result)))
    IN /\ At(k, "log")
       /\ Affordable(f, FALSE)
       /\ admin_logs' = res.table
       /\ reqs' = [reqs EXCEPT ![k] = Goto(r1, "done")]
       /\ nfaults' = nfaults + Cost(f, FALSE)
       /\ UNCHANGED <<store, ADMIN_ID>>

Slots == 1..MaxEvents

Next ==
    \/ \E from \in Profiles, text \in MessageTexts, t \in BOOLEAN :
          ReceiveMessage(from, text, t)
    \/ \E from \in Profiles, data \in CallbackData, t \in BOOLEAN :
          ReceiveCallback(from, data, t)
    \/ \E method \in Methods, hasBody \in BOOLEAN : WebhookOther(method, hasBody)
    \/ \E from \in Profiles : WebhookRejected(from, TxtStart)
    \/ \E k \in Slots, t \in BOOLEAN : Decline(k, t)
    \/ \E k \in Slots, f \in Faults, t \in BOOLEAN : StartCheck(k, f, t)
    \/ \E k \in Slots, f \in Faults, t \in BOOLEAN : AcceptCheck(k, f, t)
    \/ \E k \in Slots, f \in Faults, t \in BOOLEAN : AcceptInsert(k, f, t)
    \/ \E k \in Slots, f \in Faults, t \in BOOLEAN : CountQuery(k, f, t)
    \/ \E k \in Slots, f \in Faults, t \in BOOLEAN : ListQuery(k, f, t)
    \/ \E k \in Slots, f \in Faults, t \in BOOLEAN : NotifyList(k, f, t)
    \/ \E k \in Slots, failed \in BOOLEAN : NotifySend(k, failed)
    \/ \E k \in Slots, t \in BOOLEAN : NotifySummary(k, t)
    \/ \E k \in Slots, f \in Faults : LogStep(k, f)

Spec == Init /\ [][Next]_vars

----------------------------------------------------------------------------
(* One user's registration attempts: user 42 alone, over an empty table,    *)
(* issuing /start and pressing accept or decline, for more updates than     *)
(* Spec allows.                                                             *)

InitRetry ==
    /\ store = <<>>
    /\ admin_logs = <<>>
    /\ ADMIN_ID \in AdminEnvs
    /\ reqs = <<>>
    /\ nfaults = 0

RetryUser == CHOOSE p \in Profiles : p.id = 42 /\ p.username = Some("alice")
RetrySlots == 1..MaxRetryEvents

NextRetry ==
    \/ ReceiveMessageUpTo(MaxRetryEvents, RetryUser, TxtStart, FALSE)
    \/ \E data \in {YesData(RetryUser.id), NoData}, t \in BOOLEAN :
          ReceiveCallbackUpTo(MaxRetryEvents, RetryUser, data, t)
    \/ \E k \in RetrySlots, t \in BOOLEAN : Decline(k, t)
    \/ \E k \in RetrySlots, f \in Faults, t \in BOOLEAN : StartCheck(k, f, t)
    \/ \E k \in RetrySlots, f \in Faults, t \in BOOLEAN : AcceptCheck(k, f, t)
    \/ \E k \in RetrySlots, f \in Faults, t \in BOOLEAN : AcceptInsert(k, f, t)

SpecRetry == InitRetry /\ [][NextRetry]_vars

----------------------------------------------------------------------------
(* Progress.  Every step of a handler after its entry is the continuation   *)
(* of an await (a gateway call, a transport call, the 50 ms pause of the    *)
(* broadcast loop): once the awaited promise settles, the event loop        *)
(* resumes the handler, so a handler that can take its next step takes it.  *)

Resume(k) ==
    \/ \E t \in BOOLEAN : Decline(k, t)
    \/ \E f \in Faults, t \in BOOLEAN : StartCheck(k, f, t)
    \/ \E f \in Faults, t \in BOOLEAN : AcceptCheck(k, f, t)
    \/ \E f \in Faults, t \in BOOLEAN : AcceptInsert(k, f, t)
    \/ \E f \in Faults, t \in BOOLEAN : CountQuery(k, f, t)
    \/ \E f \in Faults, t \in BOOLEAN : ListQuery(k, f, t)
    \/ \E f \in Faults, t \in BOOLEAN : NotifyList(k, f, t)
    \/ \E failed \in BOOLEAN : NotifySend(k, failed)
    \/ \E t \in BOOLEAN : NotifySummary(k, t)
    \/ \E f \in Faults : LogStep(k, f)

\* the deployments in which an administrator is configured
InitLive == Init /\ parseInt(ADMIN_ID) # None

SpecLive == InitLive /\ [][Next]_vars /\ \A k \in Slots : WF_vars(Resume(k))

----------------------------------------------------------------------------
(* Properties.                                                              *)

Received == 1..Len(reqs)
CallsOf(r, op) == {n \in 1..Len(r.trace) : r.trace[n].op = op}
HasCall(r, op) == CallsOf(r, op) # {}
Said(r, op, text) == \E n \in CallsOf(r, op) : r.trace[n].text = text
Offers(r) == {n \in 1..Len(r.trace) : r.trace[n].buttons # <<>>}
Finished(r) == r.pc = "done"

\* the id a button's callback data carries, None when it carries none
ButtonId(data) ==
    IF MatchAction(data).id = None THEN None ELSE parseInt(MatchAction(data).id[1])

\* an accept press whose data carries the presser's own id
IsAccept(r) == r.kind = "action" /\ r.text = YesData(r.from.id)
IsDecline(r) == r.kind = "action" /\ MatchAction(r.text).action = "no"
IsAdminCommand(r) == r.kind \in {"count", "list", "notify"}
OneRow(telegramId) == Cardinality(RowsOf(store, telegramId)) = 1

C2_AtMostOneRowPerId ==
    \A m, n \in 1..Len(store) : store[m].telegram_id = store[n].telegram_id => m = n

\* C2 witness: two accepts for the same id both passed the re-check (both saw
\* 'not registered') and both went on to insert.
C2_Witness ==
    \E j, k \in Received :
        /\ j # k /\ reqs[j].from.id = reqs[k].from.id
        /\ \A x \in {j, k} :
              /\ IsAccept(reqs[x]) /\ Finished(reqs[x])
              /\ \E n \in CallsOf(reqs[x], "isUserRegistered") : reqs[x].trace[n].res = "false"
              /\ HasCall(reqs[x], "registerUser")

\* C3 as stated: /start from a user who has a row always replies 'already
\* registered', sends no offer and never calls registerUser.
C3_RegisteredStartAlwaysSaysAlready ==
    \A k \in Received :
        (reqs[k].kind = "start" /\ reqs[k].regAtArrival /\ Finished(reqs[k]))
        => (Said(reqs[k], "reply", MsgAlready)
            /\ Offers(reqs[k]) = {} /\ ~HasCall(reqs[k], "registerUser"))

\* C3 amended: /start from a user who has a row sends no offer and never
\* calls registerUser; its only reply is 'already registered', or the generic
\* failure message when the membership check returns the error sentinel.
C3_RegisteredStartNeverOffers ==
    \A k \in Received :
        (reqs[k].kind = "start" /\ reqs[k].regAtArrival /\ Finished(reqs[k]))
        => LET r == reqs[k]
               checks == CallsOf(r, "isUserRegistered")
               replies == CallsOf(r, "reply")
           IN /\ Offers(r) = {} /\ ~HasCall(r, "registerUser")
              /\ Cardinality(checks) = 1 /\ Cardinality(replies) = 1
              /\ \A c \in checks, n \in replies :
                    r.trace[n].text = IF r.trace[c].res = "null" THEN MsgGeneric
                                      ELSE MsgAlready

\* C3 witness: a registered user's /start was answered 'already registered'.
C3_Witness ==
    \E k \in Received :
        /\ reqs[k].kind = "start" /\ reqs[k].regAtArrival /\ Finished(reqs[k])
        /\ Said(reqs[k], "reply", MsgAlready)

\* C4: an accept whose data carries an id other than the presser's is
\* answered with the 'not for you' alert and nothing else: no membership
\* check, no registerUser, no edit.
C4_MismatchedAcceptRejected ==
    \A k \in Received :
        (reqs[k].kind = "action" /\ MatchAction(reqs[k].text).action = "yes"
         /\ \E p \in Profiles : p.id # reqs[k].from.id /\ reqs[k].text = YesData(p.id))
        => /\ Finished(reqs[k])
           /\ Len(reqs[k].trace) = 1
           /\ reqs[k].trace[1].op = "answerCbQuery"
           /\ reqs[k].trace[1].text = MsgNotForYou

\* C4 witness: user 7 pressed the accept button of user 42's offer while 42
\* had no row.
C4_Witness ==
    \E k \in Received :
        /\ reqs[k].kind = "action" /\ reqs[k].from.id = 7 /\ reqs[k].text = YesData(42)
        /\ RowsOf(store, 42) = {}
        /\ Said(reqs[k], "answerCbQuery", MsgNotForYou)

\* C5 as stated: every callback button of an offer, accept and decline,
\* carries the id of the user who issued /start.
C5_BothButtonsCarryId ==
    \A k \in Received : \A n \in Offers(reqs[k]) :
        \A b \in 1..Len(reqs[k].trace[n].buttons) :
            ButtonId(reqs[k].trace[n].buttons[b]) = Some(reqs[k].from.id)

\* C5 amended: of an offer's buttons only the accept button carries the id of
\* the user who issued /start; the decline button carries none, so a decline
\* pressed by any user, the offer's owner or not, is never answered 'not for
\* you': it is acknowledged plainly and the prompt is edited to the decline
\* acknowledgement, with no gateway call.
C5_OnlyAcceptCarriesId ==
    /\ \A k \in Received : \A n \in Offers(reqs[k]) :
          LET buttons == reqs[k].trace[n].buttons
          IN /\ Len(buttons) = 2
             /\ MatchAction(buttons[1]).action = "yes"
             /\ ButtonId(buttons[1]) = Some(reqs[k].from.id)
             /\ MatchAction(buttons[2]).action = "no"
             /\ ButtonId(buttons[2]) = None
    /\ \A k \in Received :
          (reqs[k].kind = "action" /\ reqs[k].text = NoData)
          => LET r == reqs[k]
             IN /\ r.trace[1].op = "answerCbQuery" /\ r.trace[1].text = <<>>
                /\ (Finished(r) /\ r.trace[1].res = "ok")
                   => (Len(r.trace) >= 2 /\ r.trace[2].op = "editMessageText"
                       /\ r.trace[2].text = MsgDeclined)
                /\ \A n \in 1..Len(r.trace) :
                      r.trace[n].op \in {"answerCbQuery", "editMessageText", "reply"}

\* C5 witness: user 42 got an offer and user 7 pressed its decline button; the
\* prompt was edited to the decline acknowledgement.
C5_Witness ==
    \E j, k \in Received :
        /\ j < k
        /\ reqs[j].kind = "start" /\ reqs[j].from.id = 42 /\ Offers(reqs[j]) # {}
        /\ \E n \in Offers(reqs[j]) : reqs[j].trace[n].buttons[2] = reqs[k].text
        /\ reqs[k].kind = "action" /\ reqs[k].from.id = 7
        /\ Said(reqs[k], "editMessageText", MsgDeclined)

\* the request that takes the step, when the step is a handler's
Stepped(k) ==
    /\ k \in 1..Len(reqs')
    /\ IF k \in 1..Len(reqs) THEN reqs'[k] # reqs[k] ELSE TRUE

\* C6: no step of a decline handler changes the registrations table, and a
\* decline handler never calls registerUser.
C6_DeclineLeavesStore ==
    [][\A k \in Slots :
          (Stepped(k) /\ IsDecline(reqs'[k]))
          => (store' = store /\ ~HasCall(reqs'[k], "registerUser"))]_vars

\* C6 witness: an unregistered user declined, the prompt was edited to the
\* decline acknowledgement and the user still has no row.
C6_Witness ==
    \E k \in Received :
        /\ IsDecline(reqs[k]) /\ Finished(reqs[k]) /\ ~reqs[k].regAtArrival
        /\ Said(reqs[k], "editMessageText", MsgDeclined)
        /\ isUserRegistered(store, reqs[k].from.id, "none") = Some(FALSE)

\* C7: /count, /list and /notify from anyone but the configured administrator
\* get the unauthorized notice and nothing else: no store read, no broadcast
\* send, no audit-log call; and no audit-log row names another actor.
C7_NonAdminBlocked ==
    /\ \A k \in Received :
          (IsAdminCommand(reqs[k]) /\ parseInt(ADMIN_ID) # Some(reqs[k].from.id))
          => /\ Finished(reqs[k])
             /\ Len(reqs[k].trace) = 1
             /\ reqs[k].trace[1].op = "reply"
             /\ reqs[k].trace[1].text = MsgUnauthorized
    /\ \A n \in 1..Len(admin_logs) :
          parseInt(ADMIN_ID) = Some(admin_logs[n].admin_telegram_id)

\* C7 witness: with administrator 1 configured, user 42 issued /notify with a
\* message while the store held registrants.
C7_Witness ==
    \E k \in Received :
        /\ parseInt(ADMIN_ID) = Some(1)
        /\ reqs[k].kind = "notify" /\ reqs[k].from.id = 42 /\ reqs[k].text = TxtNotifyHi
        /\ Len(store) > 0
        /\ Said(reqs[k], "reply", MsgUnauthorized)

\* C8 as stated: a finished /count, /list or /notify of the administrator has
\* made exactly one logAdminAction call, and a blocked one none.
C8_ExactlyOneLogCall ==
    \A k \in Received :
        (IsAdminCommand(reqs[k]) /\ Finished(reqs[k]))
        => Cardinality(CallsOf(reqs[k], "logAdminAction"))
              = IF parseInt(ADMIN_ID) = Some(reqs[k].from.id) THEN 1 ELSE 0

\* the send attempts of a broadcast, in order, and those that failed
Sends(r) == SelectSeq(r.trace, LAMBDA c : c.op = "sendMessage")
FailedSendsOf(r) == SelectSeq(Sends(r), LAMBDA c : c.res = "fail")
FailedIdsOf(r) == [n \in 1..Len(FailedSendsOf(r)) |-> FailedSendsOf(r)[n].to]
LoopOver(r) == r.kind = "notify" /\ r.users # <<>> /\ r.pc \in {"log", "done"}
SummaryOf(r) ==
    MsgBroadcastDone(Len(r.users) - Len(FailedSendsOf(r)), Len(FailedSendsOf(r)))
DetailsOf(r) ==
    BroadcastDetails(r.messageText, Len(r.users) - Len(FailedSendsOf(r)),
                     Len(FailedSendsOf(r)), FailedIdsOf(r))

\* C9 as stated: after a broadcast over N users of which the sends to F
\* failed, the summary reply reports N - |F| and |F| and the audit-log entry of
\* the invocation records exactly the ids of F.
C9_LogAlwaysRecordsFailedIds ==
    \A k \in Received :
        (LoopOver(reqs[k]) /\ Finished(reqs[k]))
        => /\ Said(reqs[k], "reply", SummaryOf(reqs[k]))
           /\ Said(reqs[k], "logAdminAction", <<"broadcast_message", DetailsOf(reqs[k])>>)

\* C9 amended: after a broadcast over N users of which the sends to F failed,
\* every user of the list got one send, the summary reply reports N - |F|
\* successes and |F| failures, and, when that reply is delivered, the
\* audit-log entry handed to logAdminAction is broadcast_message with exactly
\* the ids of F, in list order; when the summary reply itself fails, the entry
\* is notify_failed and names no ids.
C9_TalliesMatchSends ==
    \A k \in Received :
        LoopOver(reqs[k])
        => LET r == reqs[k]
               summary == {n \in CallsOf(r, "reply") : r.trace[n].text = SummaryOf(r)}
           IN /\ [n \in 1..Len(Sends(r)) |-> Sends(r)[n].to]
                    = [n \in 1..Len(r.users) |-> r.users[n].telegram_id]
              /\ Cardinality(summary) = 1
              /\ \A n \in summary :
                    /\ r.logData.admin_telegram_id = r.from.id
                    /\ r.trace[n].res = "ok"
                       => (r.logData.action = "broadcast_message"
                           /\ r.logData.details = DetailsOf(r))
                    /\ r.trace[n].res = "fail"
                       => (r.logData.action = "notify_failed"
                           /\ r.logData.details
                                 = "Unhandled error during broadcast: " \o ErrMessage)
              /\ Finished(r)
                 => Said(r, "logAdminAction", <<r.logData.action, r.logData.details>>)

\* C9 witness: a broadcast over two users in which the first send failed and
\* the second succeeded has been logged.
C9_Witness ==
    \E k \in Received :
        /\ LoopOver(reqs[k]) /\ Finished(reqs[k])
        /\ Len(reqs[k].users) = 2
        /\ Sends(reqs[k])[1].res = "fail" /\ Sends(reqs[k])[2].res = "ok"
        /\ \E n \in 1..Len(admin_logs) :
              /\ admin_logs[n].action = "broadcast_message"
              /\ admin_logs[n].details = DetailsOf(reqs[k])

\* the text that follows the command token of a message
AfterCommand(text) == SubSeq(text, Len(CommandToken(text)) + 1, Len(text))

\* C10 as stated: a /notify of the administrator with nothing but whitespace
\* after the command token never calls getRegisteredUsersList, sends nothing
\* to any registrant and is answered with the usage hint.
C10_EmptyNotifyNeverLists ==
    \A k \in Received :
        (reqs[k].kind = "notify" /\ parseInt(ADMIN_ID) = Some(reqs[k].from.id)
         /\ trim(AfterCommand(reqs[k].text)) = <<>>)
        => /\ ~HasCall(reqs[k], "getRegisteredUsersList")
           /\ ~HasCall(reqs[k], "sendMessage")
           /\ Said(reqs[k], "reply", MsgUsage)

Contains(text, piece) == \E n \in 1..Len(text) : text[n] = piece
Named(from) == Truthy(from.username) /\ Truthy(from.first_name)
LastCall(r) == r.trace[Len(r.trace)]
ResOf(r, op) == {r.trace[n].res : n \in CallsOf(r, op)}

\* C11: for a user with id i, handle h and display name n and without a row,
\* the /start whose membership check answers 'not registered' sends an offer
\* whose text contains i and '@h' and whose accept button carries i; the
\* accept whose registerUser returns the row makes the store gain exactly the
\* row {telegram_id: i, username: h, first_name: n} and edits the prompt to
\* the confirmation message naming n.
C11_ScenarioRegisters ==
    [][\A k \in Slots :
          (Stepped(k) /\ Named(reqs'[k].from))
          => LET r == reqs'[k]
                 i == r.from.id
                 h == r.from.username[1]
                 n == r.from.first_name[1]
             IN /\ (r.kind = "start" /\ ResOf(r, "isUserRegistered") = {"false"})
                   => /\ Len(r.trace) >= 2
                      /\ r.trace[2].op = "reply"
                      /\ Contains(r.trace[2].text, ToString(i))
                      /\ Contains(r.trace[2].text, "@" \o h)
                      /\ r.trace[2].buttons[1] = YesData(i)
                      /\ ButtonId(r.trace[2].buttons[1]) = Some(i)
                /\ (IsAccept(r) /\ ResOf(r, "registerUser") = {"row"})
                   => /\ store' = Append(store, [telegram_id |-> i, username |-> Some(h),
                                                 first_name |-> n])
                      /\ LastCall(r).op \in {"editMessageText", "reply"}
                      /\ Said(r, "editMessageText",
                              <<"Great! Thanks for registering, ", n,
                                "! I'll notify you when the Portfolio Showcase app is ready.">>)]_vars

\* C11 witness: the scenario of user 42 (alice, Alice): the offer was sent,
\* the accept inserted the row and the prompt was edited to the confirmation.
C11_Witness ==
    \E j, k \in Received :
        /\ j < k /\ reqs[j].from.id = 42 /\ reqs[k].from.id = 42
        /\ reqs[j].kind = "start" /\ ~reqs[j].regAtArrival
        /\ \E n \in Offers(reqs[j]) :
              /\ reqs[j].trace[n].res = "ok"
              /\ Contains(reqs[j].trace[n].text, "42")
              /\ Contains(reqs[j].trace[n].text, "@alice")
              /\ reqs[j].trace[n].buttons[1] = reqs[k].text
        /\ IsAccept(reqs[k]) /\ ResOf(reqs[k], "registerUser") = {"row"}
        /\ LastCall(reqs[k]).op = "editMessageText" /\ LastCall(reqs[k]).res = "ok"
        /\ LastCall(reqs[k]).text = MsgRegistered(reqs[k].from)
        /\ store = <<[telegram_id |-> 42, username |-> Some("alice"), first_name |-> "Alice"]>>


\* the lines of a /list reply for the rows of a table, in table order
RECURSIVE ExpectedLines(_)
ExpectedLines(rows) ==
    IF rows = <<>> THEN ""
    ELSE LET line == IF rows[1].username = None \/ rows[1].username = Some("")
                     THEN "- " \o ToString(rows[1].telegram_id)
                     ELSE "- " \o ToString(rows[1].telegram_id)
                          \o " (@" \o rows[1].username[1] \o ")"
         IN IF Len(rows) = 1 THEN line ELSE line \o "\n" \o ExpectedLines(Tail(rows))

\* C12: the reply of the administrator's /list is, for a store error, the
\* failure message; for an empty list, the 'no users' message; otherwise
\* exactly 'Registered Users:' and, newline-joined and in the returned order,
\* one line per row: '- <id> (@<handle>)' with a handle, '- <id>' without.
C12_ListReplyFormat ==
    [][\A k \in Slots :
          (At(k, "list_query") /\ Stepped(k))
          => LET query == reqs'[k].trace[1]
                 answer == reqs'[k].trace[2]
             IN /\ query.op = "getRegisteredUsersList"
                /\ query.res \in {"null", ToString(Len(store))}
                /\ answer.op = "reply"
                /\ Str(answer.text) =
                      IF query.res = "null"
                      THEN "Something went wrong while fetching the user list, please try again later."
                      ELSE IF store = <<>>
                      THEN "No users are currently registered."
                      ELSE "Registered Users:\n" \o ExpectedLines(store)]_vars

\* C12 witness: administrator 1 listed a store holding 42 (alice) and 7 (no
\* handle) and got the two lines.
C12_Witness ==
    \E k \in Received :
        /\ reqs[k].kind = "list" /\ reqs[k].from.id = 1 /\ parseInt(ADMIN_ID) = Some(1)
        /\ \E n \in CallsOf(reqs[k], "reply") :
              /\ reqs[k].trace[n].res = "ok"
              /\ Str(reqs[k].trace[n].text) = "Registered Users:\n- 42 (@alice)\n- 7"


\* C13: on the tables of every reachable state, each of the five gateway
\* operations answers a backend error and a thrown client exception alike with
\* null, leaving the tables as they were, and answers a call without fault
\* with a value other than null, also when that value is empty (false, 0, []).
C13_GatewayFaultsBecomeNull ==
    /\ \A f \in Faults \ {"none"} :
          /\ \A p \in Profiles :
                /\ isUserRegistered(store, p.id, f) = None
                /\ registerUser(store, UserData(p), f) = [result |-> None, table |-> store]
                /\ logAdminAction(admin_logs,
                                  [admin_telegram_id |-> p.id, action |-> "count_users",
                                   details |-> ""], f)
                      = [result |-> None, table |-> admin_logs]
          /\ getRegisteredUserCount(store, f) = None
          /\ getRegisteredUsersList(store, f) = None
    /\ \A p \in Profiles :
          /\ isUserRegistered(store, p.id, "none") \in {Some(TRUE), Some(FALSE)}
          /\ logAdminAction(admin_logs,
                            [admin_telegram_id |-> p.id, action |-> "count_users",
                             details |-> ""], "none").result # None
    /\ getRegisteredUserCount(store, "none") = Some(Len(store))
    /\ getRegisteredUsersList(store, "none") # None
    /\ Len(getRegisteredUsersList(store, "none")[1]) = Len(store)
    /\ \A k \in Received : \A n \in CallsOf(reqs[k], "getRegisteredUsersList") :
          reqs[k].trace[n].res = "0" => ~Said(reqs[k], "reply", MsgListFailed)

\* C13 witness: over the same empty store one /list got the empty array and
\* answered 'no users', another got null and answered with the failure message.
C13_Witness ==
    \E j, k \in Received :
        /\ store = <<>>
        /\ reqs[j].kind = "list" /\ ResOf(reqs[j], "getRegisteredUsersList") = {"0"}
        /\ Said(reqs[j], "reply", MsgNoUsers)
        /\ reqs[k].kind = "list" /\ ResOf(reqs[k], "getRegisteredUsersList") = {"null"}
        /\ Said(reqs[k], "reply", MsgListFailed)

\* C14: isUserRegistered(id) is true exactly when the table holds a row for
\* id; without a row the backend's answer is the error PGRST116 and the result
\* is false, not null; every other backend error gives null.
C14_NoRowsIsFalse ==
    \A telegramId \in {p.id : p \in Profiles} \cup {5} :
        LET present == \E n \in 1..Len(store) : store[n].telegram_id = telegramId
        IN /\ isUserRegistered(store, telegramId, "none") = Some(present)
           /\ ~present => BackendSelectSingle(store, telegramId, "none").error = "PGRST116"
           /\ present => BackendSelectSingle(store, telegramId, "none").error = ""
           /\ BackendSelectSingle(store, telegramId, "error").error \notin {"", "PGRST116"}
           /\ isUserRegistered(store, telegramId, "error") = None

\* C14 witness: a user without a row in a non-empty table issued /start; the
\* check answered false and the offer was sent.
C14_Witness ==
    \E k \in Received :
        /\ reqs[k].kind = "start" /\ store # <<>> /\ RowsOf(store, reqs[k].from.id) = {}
        /\ ResOf(reqs[k], "isUserRegistered") = {"false"}
        /\ Offers(reqs[k]) # {}


\* the calls a request made after its first failed transport call
AfterFailure(r) ==
    {n \in 1..Len(r.trace) : \E m \in 1..(n - 1) : r.trace[m].res = "fail"}

\* C15 as stated: an update whose handler threw to the top level, or whose
\* dispatch itself failed, has been answered with the generic failure message,
\* sent after the fault.
C15_TopLevelAnswersUser ==
    \A k \in Received :
        (reqs[k].caught \/ reqs[k].kind = "rejected")
        => \E n \in CallsOf(reqs[k], "reply") :
              /\ reqs[k].trace[n].text = MsgGeneric
              /\ reqs[k].kind # "rejected" => n \in AfterFailure(reqs[k])

\* C16 as stated: every request the webhook has finished was answered with
\* status 200: a POST with an update whether or not its processing threw, any
\* other request with the static information text.
C16_AlwaysAcknowledged ==
    \A k \in Received :
        Finished(reqs[k])
        => /\ reqs[k].statusCode = 200
           /\ reqs[k].kind = "other" => reqs[k].body = BodyInfo


\* an accept press that passed the guard and whose re-check answered 'not registered'
PassedRecheck(r) ==
    /\ r.kind = "action" /\ MatchAction(r.text).action = "yes"
    /\ ResOf(r, "isUserRegistered") = {"false"}

\* C17: of two accepts for the same id that both passed the re-check before
\* either inserted, at most one registerUser returns the row and that accept
\* edits its prompt to the confirmation; an accept whose registerUser returns
\* null edits its prompt to the registration-failure message and never says
\* 'already registered'; without injected faults exactly one of the two
\* succeeds and the table holds one row for the id.
C17_RaceLoserGetsFailure ==
    \A j, k \in Received :
        (/\ j # k /\ reqs[j].from.id = reqs[k].from.id
         /\ PassedRecheck(reqs[j]) /\ PassedRecheck(reqs[k])
         /\ Finished(reqs[j]) /\ Finished(reqs[k]))
        => /\ \A x \in {j, k} :
                 /\ Cardinality(CallsOf(reqs[x], "registerUser")) = 1
                 /\ ResOf(reqs[x], "registerUser") = {"row"}
                    => Said(reqs[x], "editMessageText", MsgRegistered(reqs[x].from))
                 /\ ResOf(reqs[x], "registerUser") = {"null"}
                    => /\ Said(reqs[x], "editMessageText", MsgRegFailed)
                       /\ \A n \in 1..Len(reqs[x].trace) :
                             reqs[x].trace[n].text # MsgAlready
           /\ ResOf(reqs[j], "registerUser") \cup ResOf(reqs[k], "registerUser") # {"row"}
           /\ nfaults = 0
              => /\ ResOf(reqs[j], "registerUser") \cup ResOf(reqs[k], "registerUser")
                       = {"row", "null"}
                 /\ OneRow(reqs[j].from.id)

\* C17 witness: two accepts of user 42 both saw 'not registered'; without any
\* injected fault the first insert returned the row and the second returned
\* null, and the second prompt was edited to the registration-failure message.
C17_Witness ==
    \E j, k \in Received :
        /\ j # k /\ reqs[j].from.id = 42 /\ reqs[k].from.id = 42 /\ nfaults = 0
        /\ PassedRecheck(reqs[j]) /\ PassedRecheck(reqs[k])
        /\ ResOf(reqs[j], "registerUser") = {"row"}
        /\ LastCall(reqs[j]).text = MsgRegistered(reqs[j].from)
        /\ ResOf(reqs[k], "registerUser") = {"null"}
        /\ LastCall(reqs[k]).op = "editMessageText" /\ LastCall(reqs[k]).text = MsgRegFailed
        /\ LastCall(reqs[k]).res = "ok"


\* the calls of a request that come before its n-th call
Before(r, n) == {r.trace[m] : m \in 1..(n - 1)}

\* C18: in an accept handler every registerUser call comes after a membership
\* re-check that answered 'not registered'; when the re-check answers
\* 'registered', the handler calls registerUser not at all and its next call
\* edits the prompt to the 'already registered' message.
C18_RecheckBeforeInsert ==
    \A k \in Received :
        reqs[k].kind = "action"
        => LET r == reqs[k]
           IN /\ \A n \in CallsOf(r, "registerUser") :
                    \E c \in Before(r, n) : c.op = "isUserRegistered" /\ c.res = "false"
              /\ \A n \in CallsOf(r, "isUserRegistered") :
                    r.trace[n].res = "true"
                    => /\ ~HasCall(r, "registerUser")
                       /\ Finished(r)
                       /\ Len(r.trace) > n
                       /\ r.trace[n + 1].op = "editMessageText"
                       /\ r.trace[n + 1].text = MsgAlready

\* C18 witness: user 42 pressed accept and was registered, then pressed accept
\* again: the second press found the row, made no insert and edited the prompt
\* to 'already registered'.
C18_Witness ==
    \E j, k \in Received :
        /\ j < k /\ reqs[j].from.id = 42 /\ reqs[k].from.id = 42
        /\ IsAccept(reqs[j]) /\ ResOf(reqs[j], "registerUser") = {"row"}
        /\ IsAccept(reqs[k]) /\ reqs[k].regAtArrival
        /\ ResOf(reqs[k], "isUserRegistered") = {"true"}
        /\ ~HasCall(reqs[k], "registerUser")
        /\ LastCall(reqs[k]).op = "editMessageText" /\ LastCall(reqs[k]).text = MsgAlready
        /\ OneRow(42)

C20_FailedInsertCanRetry ==
    [][\A k \in DOMAIN reqs :
          (/\ reqs[k].pc = "accept_insert" /\ reqs'[k] # reqs[k]
           /\ reqs'[k].trace[Len(reqs[k].trace) + 1].res = "null")
          => LET r == reqs'[k]
                 n == Len(reqs[k].trace) + 1
                 again == isUserRegistered(store', r.from.id, "none")
                 offer == StartReply(NewReq("start", r.from, TxtStart, FALSE), again, FALSE)
             IN /\ r.trace[n].op = "registerUser"
                /\ CallsOf(r, "registerUser") = {n}
                /\ store' = store
                /\ Finished(r)
                /\ Len(r.trace) > n
                /\ r.trace[n + 1].op = "editMessageText"
                /\ r.trace[n + 1].text =
                      <<"Something went wrong during registration, please try again later.">>
                /\ RowsOf(store', r.from.id) = {}
                   => /\ again = Some(FALSE)
                      /\ Offers(offer) # {}
                      /\ LastCall(offer).buttons[1] = YesData(r.from.id)
                      /\ registerUser(store', UserData(r.from), "none").result # None]_vars

\* C20 witness: user 42 got the offer and accepted, registerUser returned null
\* and the prompt was edited to the registration-failure message; 42 then
\* issued /start again, got a new offer, accepted and was registered.
C20_Witness ==
    /\ Len(reqs) = 4 /\ \A k \in 1..4 : reqs[k].from.id = 42 /\ ~reqs[k].regAtArrival
    /\ nfaults = 1
    /\ reqs[1].kind = "start" /\ Offers(reqs[1]) = {Len(reqs[1].trace)}
    /\ IsAccept(reqs[2]) /\ ResOf(reqs[2], "registerUser") = {"null"}
    /\ LastCall(reqs[2]).op = "editMessageText" /\ LastCall(reqs[2]).text = MsgRegFailed
    /\ reqs[3].kind = "start" /\ Offers(reqs[3]) = {Len(reqs[3].trace)}
    /\ IsAccept(reqs[4]) /\ ResOf(reqs[4], "registerUser") = {"row"}
    /\ LastCall(reqs[4]).text = MsgRegistered(reqs[4].from)
    /\ OneRow(42)


\* C21: the step of a /start handler whose membership check returns null
\* replies with the generic failure message and nothing else, sends no offer
\* and leaves both tables as they were; and every /start, whatever came
\* before it, makes its own membership check, whose answer without a fault is
\* the table's content at that moment.
C21_StartErrorKeepsNothing ==
    [][\A k \in DOMAIN reqs :
          (reqs[k].pc = "start_check" /\ reqs'[k] # reqs[k])
          => LET r == reqs'[k]
                 has == RowsOf(store, r.from.id) # {}
             IN /\ Len(r.trace) >= 2 /\ r.trace[1].op = "isUserRegistered"
                /\ r.trace[1].res \in {"null", IF has THEN "true" ELSE "false"}
                /\ nfaults' = nfaults => r.trace[1].res # "null"
                /\ r.trace[1].res = "null"
                   => /\ Len(r.trace) = 2
                      /\ r.trace[2].op = "reply"
                      /\ r.trace[2].text = <<"Something went wrong, please try again later.">>
                      /\ Offers(r) = {}
                      /\ store' = store /\ admin_logs' = admin_logs
                      /\ Finished(r)]_vars

\* C21 witness: a /start of user 7 (no row) met a store error and got the
\* generic failure message; the next /start of user 7 was checked anew and got
\* the offer.
C21_Witness ==
    \E j, k \in Received :
        /\ j < k /\ reqs[j].from.id = 7 /\ reqs[k].from.id = 7
        /\ reqs[j].kind = "start" /\ ResOf(reqs[j], "isUserRegistered") = {"null"}
        /\ Said(reqs[j], "reply", MsgGeneric) /\ Offers(reqs[j]) = {}
        /\ reqs[k].kind = "start" /\ ResOf(reqs[k], "isUserRegistered") = {"false"}
        /\ Offers(reqs[k]) # {}
        /\ RowsOf(store, 7) = {}


\* the user of request k has finished a decline in another request
DeclinedBefore(k) ==
    \E d \in DOMAIN reqs :
        /\ d # k /\ IsDecline(reqs[d]) /\ Finished(reqs[d])
        /\ reqs[d].from.id = reqs[k].from.id

\* C22: a decline step leaves the registrations table as it was; and for a
\* user who has declined and has no row, a /start whose check and reply meet
\* no fault is answered with the offer carrying the user's id, and an accept
\* whose insert and edit meet no fault appends the user's row and edits the
\* prompt to the confirmation.
C22_DeclineDoesNotBlock ==
    [][\A k \in DOMAIN reqs :
          (reqs'[k] # reqs[k])
          => LET r == reqs'[k]
                 fresh == DeclinedBefore(k) /\ RowsOf(store, r.from.id) = {}
                          /\ nfaults' = nfaults
             IN /\ reqs[k].pc = "decline_edit" => store' = store
                /\ (reqs[k].pc = "start_check" /\ fresh)
                   => /\ LastCall(r).op = "reply"
                      /\ LastCall(r).text = MsgPrompt(r.from)
                      /\ LastCall(r).buttons[1] = YesData(r.from.id)
                /\ (reqs[k].pc = "accept_insert" /\ fresh)
                   => /\ store' = Append(store, UserData(r.from))
                      /\ LastCall(r).op = "editMessageText"
                      /\ LastCall(r).text = MsgRegistered(r.from)]_vars

\* C22 witness: user 42 got the offer and declined, issued /start again, got
\* a new offer, accepted it and has a row.
C22_Witness ==
    /\ Len(reqs) = 4 /\ nfaults = 0
    /\ \A k \in 1..4 : reqs[k].from.id = 42 /\ ~reqs[k].regAtArrival /\ Finished(reqs[k])
    /\ reqs[1].kind = "start" /\ Offers(reqs[1]) # {}
    /\ IsDecline(reqs[2]) /\ Said(reqs[2], "editMessageText", MsgDeclined)
    /\ reqs[3].kind = "start" /\ Offers(reqs[3]) # {}
    /\ IsAccept(reqs[4]) /\ ResOf(reqs[4], "registerUser") = {"row"}
    /\ Said(reqs[4], "editMessageText", MsgRegistered(reqs[4].from))
    /\ OneRow(42)


\* the recipients of the send attempts of a request, in order
SentTo(r) == [n \in 1..Len(Sends(r)) |-> Sends(r)[n].to]
ListIds(r) == [n \in 1..Len(r.users) |-> r.users[n].telegram_id]

\* C23: a step of the broadcast loop makes exactly one send attempt, to the
\* next entry of the fetched list, with the text of the command, and moves on
\* to the following entry whether the attempt failed or not; so at every
\* moment the attempts made are a prefix of the list, in list order, and when
\* the loop is over every entry has had exactly one attempt.
C23_OneSendPerEntryInOrder ==
    [][\A k \in DOMAIN reqs :
          /\ (reqs[k].pc = "notify_send" /\ reqs'[k] # reqs[k])
             => LET r == reqs[k]
                    r1 == reqs'[k]
                IN /\ Len(r1.trace) = Len(r.trace) + 1
                   /\ LastCall(r1).op = "sendMessage"
                   /\ LastCall(r1).to = r.users[r.i].telegram_id
                   /\ LastCall(r1).text = <<Str(trim(substring(r.text, 8)))>>
                   /\ r1.users = r.users /\ r1.i = r.i + 1
                   /\ r1.pc = IF r.i < Len(r.users) THEN "notify_send" ELSE "notify_summary"
          /\ reqs'[k].kind = "notify"
             => /\ Len(SentTo(reqs'[k])) <= Len(reqs'[k].users)
                /\ SentTo(reqs'[k]) = SubSeq(ListIds(reqs'[k]), 1, Len(SentTo(reqs'[k])))
                /\ reqs'[k].pc \in {"notify_summary", "log", "done"}
                   => SentTo(reqs'[k]) = ListIds(reqs'[k])]_vars

\* C23 witness: in a broadcast over the list 42, 7 the send to 42 failed and
\* the send to 7 was made all the same.
C23_Witness ==
    \E k \in Received :
        /\ reqs[k].kind = "notify" /\ ListIds(reqs[k]) = <<42, 7>>
        /\ SentTo(reqs[k]) = <<42, 7>>
        /\ Sends(reqs[k])[1].res = "fail"
        /\ reqs[k].pc = "notify_summary"


\* the requests whose audit-log append returned the inserted row
Logged == {k \in Received : "row" \in ResOf(reqs[k], "logAdminAction")}

\* C24: a /notify with text whose list query returns null or an empty array
\* makes no send; its next call is the reply with the list-failure message
\* (null) or the 'no users' message (empty), and it ends with exactly one
\* logAdminAction call, tagged notify_failed or notify_attempt_no_users
\* (notify_failed also when that reply was rejected); the audit log holds one
\* row per logAdminAction call that returned a row.
C24_NoListNoSends ==
    /\ \A k \in Received : \A n \in CallsOf(reqs[k], "getRegisteredUsersList") :
          (reqs[k].kind = "notify" /\ reqs[k].trace[n].res \in {"null", "0"})
          => LET r == reqs[k]
                 tag == IF r.trace[n + 1].res = "fail" \/ r.trace[n].res = "null"
                        THEN "notify_failed" ELSE "notify_attempt_no_users"
             IN /\ ~HasCall(r, "sendMessage")
                /\ Len(r.trace) > n
                /\ r.trace[n + 1].op = "reply"
                /\ r.trace[n + 1].text =
                      IF r.trace[n].res = "null"
                      THEN <<"Something went wrong while fetching the user list for notification, please try again later.">>
                      ELSE <<"No users are currently registered to notify.">>
                /\ r.pc \in {"log", "done"}
                /\ r.logData.action = tag
                /\ Finished(r)
                   => /\ Cardinality(CallsOf(r, "logAdminAction")) = 1
                      /\ LastCall(r).op = "logAdminAction"
                      /\ LastCall(r).text[1] = tag
    /\ Cardinality(Logged) = Len(admin_logs)

\* C24 witness: the administrator's '/notify hi' over an empty store was
\* answered 'no users to notify', sent nothing, and the audit log gained the
\* entry notify_attempt_no_users.
C24_Witness ==
    \E k \in Received :
        /\ reqs[k].kind = "notify" /\ reqs[k].text = TxtNotifyHi /\ store = <<>>
        /\ ResOf(reqs[k], "getRegisteredUsersList") = {"0"}
        /\ Said(reqs[k], "reply", MsgNotifyNoUsers) /\ ~HasCall(reqs[k], "sendMessage")
        /\ \E n \in 1..Len(admin_logs) :
              /\ admin_logs[n].action = "notify_attempt_no_users"
              /\ admin_logs[n].admin_telegram_id = reqs[k].from.id


\* the failure reply and the audit tags of an admin command
ReadOf(kind) == IF kind = "count" THEN "getRegisteredUserCount" ELSE "getRegisteredUsersList"
FailureReplyOf(kind) ==
    CASE kind = "count" ->
           <<"Something went wrong while fetching user count, please try again later.">>
      [] kind = "list" ->
           <<"Something went wrong while fetching the user list, please try again later.">>
      [] kind = "notify" ->
           <<"Something went wrong while fetching the user list for notification, please try again later.">>
FailedTagOf(kind) ==
    CASE kind = "count" -> "count_users_failed"
      [] kind = "list" -> "list_users_failed"
      [] kind = "notify" -> "notify_failed"
SuccessTags == {"count_users", "list_users", "broadcast_message", "notify_attempt_no_users"}

C26_CountIsExact ==
    [][\A k \in DOMAIN reqs :
          (reqs[k].pc = "count_query" /\ reqs'[k] # reqs[k])
          => LET r == reqs'[k]
             IN /\ r.trace[1].op = "getRegisteredUserCount"
                /\ r.trace[1].res \in {"null", ToString(Len(store))}
                /\ nfaults' = nfaults => r.trace[1].res # "null"
                /\ r.trace[1].res # "null"
                   => /\ r.trace[2].op = "reply"
                      /\ Str(r.trace[2].text)
                            = "Currently, " \o ToString(Cardinality(DOMAIN store))
                              \o " users are registered."
                      /\ r.trace[2].res = "ok"
                         => /\ r.logData.action = "count_users"
                            /\ r.logData.details
                                  = "Returned count: " \o ToString(Len(store))]_vars

\* C26 witness: the administrator's /count over an empty store was answered
\* 'Currently, 0 users are registered.' and logged as count_users.
C26_Witness ==
    \E k \in Received :
        /\ reqs[k].kind = "count" /\ store = <<>> /\ Finished(reqs[k])
        /\ \E n \in CallsOf(reqs[k], "reply") :
              /\ Str(reqs[k].trace[n].text) = "Currently, 0 users are registered."
              /\ reqs[k].trace[n].res = "ok"
        /\ \E a \in 1..Len(admin_logs) :
              admin_logs[a].action = "count_users"
              /\ admin_logs[a].details = "Returned count: 0"


\* C27: no step removes or changes a row of the registrations table: every
\* row stays at its place with its telegram_id, username and first_name, the
\* table grows by at most one row per step, and a membership check without
\* fault that was true for an id stays true.
C27_RowsAreKept ==
    [][/\ Len(store') \in {Len(store), Len(store) + 1}
       /\ \A n \in 1..Len(store) : store'[n] = store[n]
       /\ \A p \in Profiles :
             isUserRegistered(store, p.id, "none") = Some(TRUE)
             => isUserRegistered(store', p.id, "none") = Some(TRUE)]_vars

\* C27 witness: user 42 registered as alice / Alice, then wrote to the bot as
\* alicia / Alicia (a /start answered 'already registered', or an accept): the
\* row still says alice / Alice.
C27_Witness ==
    \E j, k \in Received :
        /\ j < k /\ reqs[j].from.id = 42 /\ reqs[k].from.id = 42
        /\ IsAccept(reqs[j]) /\ reqs[j].from.username = Some("alice")
        /\ ResOf(reqs[j], "registerUser") = {"row"}
        /\ reqs[k].from.username = Some("alicia") /\ reqs[k].regAtArrival
        /\ Finished(reqs[k]) /\ reqs[k].kind \in {"start", "action"}
        /\ \E n \in 1..Len(reqs[k].trace) : reqs[k].trace[n].text = MsgAlready
        /\ \E n \in 1..Len(store) :
              store[n] = [telegram_id |-> 42, username |-> Some("alice"),
                          first_name |-> "Alice"]
        /\ OneRow(42)


\* what a request has sent to its user: the replies, edits and alerts
ToUser(r) == SelectSeq(r.trace, LAMBDA c : c.op \in {"reply", "editMessageText", "answerCbQuery"})

\* C28: the step that awaits logAdminAction adds that one call to the
\* request and nothing for the administrator, whether the append returns the
\* row or null, and ends the handler; so a logAdminAction call is always the
\* last call of its request.
C28_LogFailureIsSilent ==
    [][\A k \in DOMAIN reqs :
          (reqs[k].pc = "log" /\ reqs'[k] # reqs[k])
          => /\ Len(reqs'[k].trace) = Len(reqs[k].trace) + 1
             /\ LastCall(reqs'[k]).op = "logAdminAction"
             /\ LastCall(reqs'[k]).res \in {"row", "null"}
             /\ ToUser(reqs'[k]) = ToUser(reqs[k])
             /\ Finished(reqs'[k])
             /\ reqs'[k].statusCode = 200
             /\ LastCall(reqs'[k]).res = "null" => admin_logs' = admin_logs]_vars

\* C28 witness: the administrator's /count was answered with the count, the
\* audit-log append then failed, and the administrator got nothing more.
C28_Witness ==
    \E k \in Received :
        /\ reqs[k].kind = "count" /\ Finished(reqs[k]) /\ admin_logs = <<>>
        /\ LastCall(reqs[k]).op = "logAdminAction" /\ LastCall(reqs[k]).res = "null"
        /\ Len(ToUser(reqs[k])) = 1
        /\ ToUser(reqs[k])[1].text = MsgCount(Len(store))
        /\ ToUser(reqs[k])[1].res = "ok"


\* C29 as stated: every text message that is none of /start, /help, /count,
\* /list and /notify is answered with the hint.
C29_EveryOtherTextGetsHint ==
    \A k \in Received :
        reqs[k].kind = "message" => Said(reqs[k], "reply", MsgHint)

\* C29 amended: a text message that is none of the five commands is answered
\* with the hint, and with nothing else, when it does not begin with '/'; when
\* it begins with '/' (an unknown command) it gets no answer at all. No
\* command handler sends the hint.
C29_HintUnlessSlash ==
    \A k \in Received :
        /\ reqs[k].kind = "message"
           => /\ Finished(reqs[k])
              /\ reqs[k].trace =
                    IF Head(reqs[k].text) = "/" THEN <<>>
                    ELSE <<Call("reply", 0,
                                <<"I'm a registration bot! Please use commands like /start or /help.">>,
                                Unawaited)>>
        /\ reqs[k].kind \in {"start", "help", "count", "list", "notify"}
           => \A n \in 1..Len(reqs[k].trace) : reqs[k].trace[n].text # MsgHint

\* C29 witness: 'hello' was answered with the hint and '/foo' with nothing.
C29_Witness ==
    \E j, k \in Received :
        /\ reqs[j].text = TxtHello /\ Said(reqs[j], "reply", MsgHint)
        /\ reqs[k].text = TxtUnknownCmd /\ reqs[k].trace = <<>> /\ Finished(reqs[k])


\* the broadcasts in progress or over
Broadcasts == {k \in Received : reqs[k].kind = "notify" /\ reqs[k].users # <<>>}

\* C30: whatever the interleaving of broadcasts, the tallies of each are those
\* of its own send attempts: successes plus failures is the number of its
\* attempts, and of its list once its loop is over; its failed ids are the
\* recipients of its own failed attempts; and what it reports and hands to
\* logAdminAction is computed from them.
C30_TalliesArePerInvocation ==
    \A k \in Broadcasts :
        LET r == reqs[k]
            own == Len(Sends(r))
            ownFailed == Len(FailedSendsOf(r))
        IN /\ r.failedSends = ownFailed
           /\ r.successfulSends = own - ownFailed
           /\ r.successfulSends + r.failedSends = r.i - 1
           /\ r.failedUserIds = FailedIdsOf(r)
           /\ r.pc # "notify_send"
              => /\ r.successfulSends + r.failedSends = Len(r.users)
                 /\ r.pc \in {"log", "done"}
                    => \E n \in CallsOf(r, "reply") :
                          r.trace[n].text = MsgBroadcastDone(own - ownFailed, ownFailed)
           /\ \A n \in CallsOf(r, "logAdminAction") :
                 r.trace[n].text[1] = "broadcast_message"
                 => r.trace[n].text[2]
                       = BroadcastDetails(r.messageText, own - ownFailed, ownFailed,
                                          FailedIdsOf(r))

\* C30 witness: two broadcasts are in their loops at the same time; the first
\* send of one failed and the first send of the other succeeded, and each has
\* tallied only its own.
C30_Witness ==
    \E j, k \in Broadcasts :
        /\ j # k
        /\ reqs[j].pc = "notify_send" /\ reqs[k].pc = "notify_send"
        /\ reqs[j].i = 2 /\ reqs[k].i = 2
        /\ Sends(reqs[j])[1].res = "fail" /\ Sends(reqs[k])[1].res = "ok"
        /\ reqs[j].failedSends = 1 /\ reqs[j].failedUserIds = <<Sends(reqs[j])[1].to>>
        /\ reqs[k].failedSends = 0 /\ reqs[k].successfulSends = 1


\* a broadcast that has entered its loop
InLoop(k) == k \in Received /\ reqs[k].kind = "notify" /\ reqs[k].users # <<>>

\* the replies and audit-log calls of a broadcast come after all its sends
SummaryAfterSends ==
    \A k \in Received :
        InLoop(k)
        => \A n \in CallsOf(reqs[k], "reply") \cup CallsOf(reqs[k], "logAdminAction") :
              /\ SentTo(reqs[k]) = ListIds(reqs[k])
              /\ \A m \in CallsOf(reqs[k], "sendMessage") : m < n

\* C31: every broadcast that has entered its loop eventually finishes, having
\* made one send attempt per entry of its list, then the summary reply call,
\* then one logAdminAction call; no reply and no logAdminAction call of a
\* broadcast precedes one of its sends.  (The reply is sent in that the call
\* is made; the transport may still reject it.)
C31_BroadcastEventuallyFinishes ==
    /\ []SummaryAfterSends
    /\ \A k \in Slots :
          InLoop(k)
          ~> /\ InLoop(k) /\ Finished(reqs[k])
             /\ SentTo(reqs[k]) = ListIds(reqs[k])
             /\ \E n \in CallsOf(reqs[k], "reply") :
                   /\ reqs[k].trace[n].text = SummaryOf(reqs[k])
                   /\ n = Len(reqs[k].users) + 2
             /\ Cardinality(CallsOf(reqs[k], "logAdminAction")) = 1
             /\ LastCall(reqs[k]).op = "logAdminAction"

\* C31 witness: a broadcast over two users has finished: the list query, the
\* two sends, the summary reply and the audit-log call, in this order.
C31_Witness ==
    \E k \in Received :
        /\ InLoop(k) /\ Finished(reqs[k])
        /\ [n \in 1..Len(reqs[k].trace) |-> reqs[k].trace[n].op]
              = <<"getRegisteredUsersList", "sendMessage", "sendMessage", "reply",
                  "logAdminAction">>
        /\ reqs[k].trace[4].text = SummaryOf(reqs[k])


\* C32: a step that changes the registration store is the insert step of one
\* accept press and appends one row, whose id, handle and name are those of
\* the presser (ctx.from), whatever the callback data carries; and an accept
\* press whose data carries no id gets the plain acknowledgement, not the
\* 'not for you' alert.
C32_RowIdIsPresser ==
    [][/\ store' # store
          => \E k \in DOMAIN reqs :
                /\ reqs[k].kind = "action" /\ reqs[k].pc = "accept_insert"
                /\ MatchAction(reqs[k].text).action = "yes"
                /\ reqs'[k] # reqs[k]
                /\ \A j \in DOMAIN reqs : j # k => reqs'[j] = reqs[j]
                /\ Len(store') = Len(store) + 1
                /\ SubSeq(store', 1, Len(store)) = store
                /\ store'[Len(store')].telegram_id = reqs[k].from.id
                /\ store'[Len(store')].username = reqs[k].from.username
                /\ ButtonId(reqs[k].text) \in {None, Some(reqs[k].from.id)}
       /\ \A k \in DOMAIN reqs' :
             (reqs'[k].kind = "action" /\ reqs'[k].text = BareYesData)
             => /\ reqs'[k].trace[1].op = "answerCbQuery"
                /\ reqs'[k].trace[1].text = <<>>
                /\ reqs'[k].trace[1].res = "ok"
                   => (reqs'[k].pc = "accept_check" \/ Len(reqs'[k].trace) > 1)
      ]_vars

\* C32 witness: user 7, who had no row, pressed an accept button whose data
\* carries no id, and the store now holds one row for 7 and its insert
\* returned it.
C32_Witness ==
    \E k \in Received :
        /\ reqs[k].kind = "action" /\ reqs[k].text = BareYesData
        /\ reqs[k].from.id = 7 /\ ~reqs[k].regAtArrival
        /\ ResOf(reqs[k], "registerUser") = {"row"}
        /\ OneRow(7)
        /\ store[Len(store)].telegram_id = 7


\* the ids of the rows of the registration store, in order
StoreIds == [n \in 1..Len(store) |-> store[n].telegram_id]

\* C33: the list of a broadcast is the content of the store when its list
\* query ran and stays the same whatever is registered afterwards; every send
\* of the broadcast goes to an entry of that list, and the finished broadcast
\* has tallied as many attempts as the list has entries, so a user registered
\* while the loop runs gets no message from it and is not counted.
C33_RecipientsAreFetchedList ==
    [][\A k \in DOMAIN reqs :
          reqs[k].kind = "notify"
          => /\ (reqs[k].pc = "notify_list" /\ reqs'[k].pc = "notify_send")
                => ListIds(reqs'[k]) = StoreIds
             /\ reqs[k].pc \in {"notify_send", "notify_summary", "log", "done"}
                => /\ reqs'[k].users = reqs[k].users
                   /\ \A n \in 1..Len(SentTo(reqs'[k])) :
                         SentTo(reqs'[k])[n] = ListIds(reqs[k])[n]
                   /\ Len(SentTo(reqs'[k])) <= Len(reqs[k].users)
                   /\ reqs'[k].pc \in {"notify_summary", "log", "done"}
                      => /\ reqs'[k].successfulSends + reqs'[k].failedSends
                               = Len(reqs[k].users)
                         /\ Len(SentTo(reqs'[k])) = Len(reqs[k].users)]_vars

\* C33 witness: user 7 was registered after a broadcast had fetched its list;
\* the broadcast has finished its loop without a send to 7 and counts one
\* attempt fewer than the store has rows.
C33_Witness ==
    \E j, k \in Received :
        /\ InLoop(k) /\ reqs[k].pc \in {"notify_summary", "log", "done"}
        /\ reqs[j].kind = "action" /\ reqs[j].from.id = 7
        /\ ResOf(reqs[j], "registerUser") = {"row"}
        /\ StoreIds = Append(ListIds(reqs[k]), 7)
        /\ \A n \in 1..Len(Sends(reqs[k])) : Sends(reqs[k])[n].to # 7
        /\ reqs[k].successfulSends + reqs[k].failedSends = Len(store) - 1


\* the requests that write nothing: /start, a decline press, /help and texts
\* that are no command
WritesNothing(r) == r.kind \in {"start", "help", "message"} \/ IsDecline(r)

\* C34: registerUser is called, and the registration store changes, only in a
\* step of an accept press; logAdminAction is called, and the audit log
\* changes, only in a step of /count, /list or /notify whose sender is the
\* configured administrator; the steps of /start, of a decline press, of
\* /help and of a free text leave the store and the audit log as they were
\* and make neither call.
C34_WritersAreAcceptAndAdmin ==
    [][\A k \in DOMAIN reqs' :
          Stepped(k)
          => LET r == reqs'[k]
                 accept == r.kind = "action" /\ MatchAction(r.text).action = "yes"
                 admin == IsAdminCommand(r) /\ parseInt(ADMIN_ID) = Some(r.from.id)
             IN /\ HasCall(r, "registerUser") => accept
                /\ store' # store => (accept /\ LastCall(r).op # "logAdminAction"
                                      /\ HasCall(r, "registerUser"))
                /\ HasCall(r, "logAdminAction") => admin
                /\ admin_logs' # admin_logs
                   => (admin /\ LastCall(r).op = "logAdminAction")
                /\ WritesNothing(r)
                   => /\ store' = store /\ admin_logs' = admin_logs
                      /\ ~HasCall(r, "registerUser") /\ ~HasCall(r, "logAdminAction")
                      /\ r.pc # "log" /\ r.pc # "accept_insert"]_vars

\* C34 witness: the administrator asked for /help and declined an offer; both
\* handlers have finished, the first with its reply and the second with the
\* edit, and the audit log is still empty.
C34_Witness ==
    \E j, k \in Received :
        /\ reqs[j].kind = "help" /\ parseInt(ADMIN_ID) = Some(reqs[j].from.id)
        /\ Finished(reqs[j]) /\ Said(reqs[j], "reply", MsgHelp(TRUE))
        /\ IsDecline(reqs[k]) /\ Finished(reqs[k])
        /\ Said(reqs[k], "editMessageText", MsgDeclined)
        /\ admin_logs = <<>>
        /\ \A n \in Received : ~HasCall(reqs[n], "registerUser")


\* C35: when parseInt of the configured administrator id is NaN (the variable
\* is unset or holds a text without leading digits), every /count, /list and
\* /notify, whoever sends it, ends with the unauthorized notice as its only
\* call, every /help reply lacks the admin section, and the audit log stays
\* empty.
C35_NoAdminWithoutNumericId ==
    parseInt(ADMIN_ID) = None
    => /\ \A k \in Received :
             /\ IsAdminCommand(reqs[k])
                => /\ reqs[k].trace = <<Call("reply", 0, MsgUnauthorized, Unawaited)>>
                   /\ Finished(reqs[k])
             /\ reqs[k].kind = "help"
                => /\ reqs[k].trace = <<Call("reply", 0, MsgHelp(FALSE), Unawaited)>>
                   /\ ~Contains(reqs[k].trace[1].text, "\n--- Admin Commands ---\n")
       /\ admin_logs = <<>>

\* C35 witness: the administrator id is configured as a text that is no
\* number; user 1 sent /count and /help and got the unauthorized notice and
\* the help text without the admin section.
C35_Witness ==
    \E j, k \in Received :
        /\ ADMIN_ID # <<>> /\ parseInt(ADMIN_ID) = None
        /\ reqs[j].kind = "count" /\ reqs[j].from.id = 1
        /\ Said(reqs[j], "reply", MsgUnauthorized)
        /\ reqs[k].kind = "help" /\ reqs[k].from.id = 1
        /\ Said(reqs[k], "reply", MsgHelp(FALSE))

\* the calls of a request on the store and the edits of its message
WorkOf(r) ==
    {n \in 1..Len(r.trace) :
        r.trace[n].op \in {"isUserRegistered", "registerUser", "editMessageText"}}

\* C36: every button press has exactly one answerCbQuery call, and it is the
\* first call of its handler: the 'not for you' alert when the data carries
\* an id other than the presser's, after which the handler makes no other
\* call, and the plain acknowledgement otherwise; every store call and every
\* edit of the message comes after the plain acknowledgement has returned.
C36_AcknowledgedOnceFirst ==
    \A k \in Received :
        reqs[k].kind = "action"
        => LET r == reqs[k]
               foreign == ButtonId(r.text) \notin {None, Some(r.from.id)}
           IN /\ CallsOf(r, "answerCbQuery") = {1}
              /\ r.trace[1].text = IF foreign THEN MsgNotForYou ELSE <<>>
              /\ foreign => (Len(r.trace) = 1 /\ Finished(r))
              /\ \A n \in WorkOf(r) :
                    /\ n > 1
                    /\ r.trace[1].text = <<>> /\ r.trace[1].res = "ok"
              /\ r.trace[1].res = "fail" => (Len(r.trace) = 1 /\ r.caught)

\* C36 witness: one press was answered with the alert alone, and another went
\* the whole accepted path: acknowledgement, membership check, insert, edit.
C36_Witness ==
    \E j, k \in Received :
        /\ reqs[j].kind = "action"
        /\ [n \in 1..Len(reqs[j].trace) |-> reqs[j].trace[n].text] = <<MsgNotForYou>>
        /\ reqs[k].kind = "action"
        /\ [n \in 1..Len(reqs[k].trace) |-> reqs[k].trace[n].op]
              = <<"answerCbQuery", "isUserRegistered", "registerUser", "editMessageText">>
        /\ reqs[k].trace[1].text = <<>>


====
